---------------------------- MODULE Spec2Model ----------------------------
(***************************************************************************)
(* A model of the public_openalex pipeline scripts.                        *)
(*                                                                         *)
(* Every script is a single pass: read table(s), loop over the rows, write *)
(* a table.  Each script is modelled by its own group of variables and its *)
(* own specification; the variables of the scripts that are not running    *)
(* stay at their idle values.                                              *)
(*                                                                         *)
(*   SpecLineage  step7_openalex_institutions_lineage.py                   *)
(*   SpecCombine  step2_combinecsvs.py                                     *)
(*   SpecScrape   the four scrapers (profile, institutions, works, ORCID)  *)
(*   SpecOrgs     the per-organization stages: step9_openalex_sorting.py,  *)
(*                step10_careertrajectory.py, the loading of               *)
(*                step11_visualizations.py, step12_combineinstitutions.py  *)
(*   SpecCsv      a table written by step8 and read back by step9          *)
(***************************************************************************)
EXTENDS Integers, Sequences, FiniteSets, TLC

VARIABLES
    \* ---- step7: InstitutionLineageAnalyzer
    df,             \* self.df: the rows of enriched_institutions.csv
    graph,          \* self.graph: [nodes |-> set of ids, edges |-> set of <<u, v>>]
    lineage_data,   \* create_lineage_summary: rows appended so far
    lineage_df,     \* the sorted table written to institutions_lineage.csv
    l_idx,          \* position of the running loop in df
    l_pc,           \* "idle" | "build" | "summary" | "save" | "done"
    \* ---- step2_combinecsvs.py
    csv_files,      \* the per-paper CSVs, in the order of sorted(glob)
    records,        \* the data frames read so far, paper_number added
    final_df,       \* the rows written to authors_metadata.csv
    c_pc,           \* "idle" | "read" | "combine" | "done"
    \* ---- the scrapers: step2_openalex_profile_scraper.py,
    \* step6_openalex_institutions_enriching.py (step5_..._enriching.py is
    \* the same code), step4_openalex_profile_works_scraper.py, orcid_scraper.py
    script,         \* which script runs: "profile" | "institutions" | "works" | "orcid"
    input_df,       \* step2 / step6: the table read from the input CSV
    authors_data,   \* step4 / orcid: the rows read from authors_enriched.csv
    index,          \* the row the loop is at (1-based; past the end when finished)
    new_data,       \* step2 new_data / step6 enriched_data
    all_years,      \* step2: the years seen in any author's affiliations
    works,          \* step4 fetch_all_works: works collected for the current author
    cursor,         \* step4 fetch_all_works: cursor of the next page
    out_file,       \* the output CSV: [columns |-> header, rows |-> rows written]
    events,         \* the HTTP requests and sleeps issued so far, in order
    s_pc,           \* "idle" | "open" | "loop" | "fetching" | "write" | "finish"
                    \* | "summary" | "done" | "crashed"
    \* ---- the per-organization stages: step9, step10, step11 (loading), step12
    files,          \* the CSV files on disk: path -> <<>> (no file) or <<table of text>>
    stage,          \* which script runs: "idle" | "sorting" | "trajectory"
                    \* | "visualizations" | "done" | "reported" | "institutions"
                    \* | "combined" | "crashed"
    org,            \* position of the script's loop in main_dirs / companies
    dfs,            \* step11 dfs / step12 all_dfs: the frames appended so far
    combined_df,    \* step11 / step12 combined_df: <<>> until it is built
    sorted_files,   \* the files as a first run of step9 left them, when step9 is
                    \* run a second time: <<>> or <<files>>
    mega_retention, \* step11 mega_retention: one record per organization and 'All'
    \* ---- step5_openalex_institutions_scraper.py
    enriched_file,  \* enriched_authors_metadata.csv as step2 wrote it: <<>> or <<table>>
    affiliations_df,  \* step5 affiliations_df: <<>> or <<table>>
    summary_df,  \* step5 institutions_df, the summary of all institutions
    summary_files,  \* authors_affiliations.csv and all_institutions.csv as written
    u_pc,           \* "idle" | "start" | "spreadsheet" | "summary" | "done" | "crashed"
    \* ---- step1.1_filternames.py
    paper_file,     \* paper1_metadata.csv: <<>> or <<table of text>>
    original_file,  \* the file before the filter was first applied
    once_file,      \* the file after the filter was applied once: <<>> or <<table>>
    passes,         \* how many times the filter has been applied
    f_pc,           \* "idle" | "ready" | "crashed"
    \* ---- step8 written, step9 reading
    author_df8,     \* step8 self.author_df: <<>> or <<table>>
    result_df8,     \* step8 result_df, the frame analyze_affiliations returns
    csv_text,       \* author_affiliations_enhanced.csv as written: <<>> or <<table>>
    author_df9,     \* the frame pd.read_csv gives step9: <<>> or <<table>>
    r_pc            \* "idle" | "loaded" | "analyzed" | "written" | "read" | "crashed"

lineageVars == <<df, graph, lineage_data, lineage_df, l_idx, l_pc>>

combineVars == <<csv_files, records, final_df, c_pc>>

scrapeVars ==
    <<script, input_df, authors_data, index, new_data, all_years, works, cursor,
      out_file, events, s_pc>>

orgVars == <<files, stage, org, dfs, combined_df>>

reportVars == <<sorted_files, mega_retention>>

summaryVars == <<enriched_file, affiliations_df, summary_df, summary_files, u_pc>>

filterVars == <<paper_file, original_file, once_file, passes, f_pc>>

csvVars == <<author_df8, result_df8, csv_text, author_df9, r_pc>>

vars == <<lineageVars, combineVars, scrapeVars, orgVars, csvVars, reportVars, summaryVars,
          filterVars>>

\* The variables of the other scripts, which a script leaves alone.
notLineageVars ==
    <<combineVars, scrapeVars, orgVars, csvVars, reportVars, summaryVars, filterVars>>
notCombineVars ==
    <<lineageVars, scrapeVars, orgVars, csvVars, reportVars, summaryVars, filterVars>>
notScrapeVars ==
    <<lineageVars, combineVars, orgVars, csvVars, reportVars, summaryVars, filterVars>>
notOrgVars ==
    <<lineageVars, combineVars, scrapeVars, csvVars, reportVars, summaryVars, filterVars>>
notCsvVars ==
    <<lineageVars, combineVars, scrapeVars, orgVars, reportVars, summaryVars, filterVars>>
notReportVars ==
    <<lineageVars, combineVars, scrapeVars, csvVars, summaryVars, filterVars>>
notSummaryVars ==
    <<lineageVars, combineVars, scrapeVars, orgVars, csvVars, reportVars, filterVars>>
notFilterVars ==
    <<lineageVars, combineVars, scrapeVars, orgVars, csvVars, reportVars, summaryVars>>

(***************************************************************************)
(* Generic helpers                                                         *)
(***************************************************************************)
Range(s) == {s[i] : i \in DOMAIN s}

RECURSIVE Pow(_, _)
Pow(b, e) == IF e = 0 THEN 1 ELSE b * Pow(b, e - 1)

\* The ascending sequence of a finite set of integers.
RECURSIVE SortedSeq(_)
SortedSeq(S) ==
    IF S = {} THEN <<>>
    ELSE LET m == CHOOSE x \in S : \A y \in S : x <= y
         IN <<m>> \o SortedSeq(S \ {m})

(***************************************************************************)
(* step7_openalex_institutions_lineage.py                                  *)
(***************************************************************************)
\* Bounds of the institution table.
NumInstitutions == 3
MaxListed == 3

\* Institution ids.  Ids 1..NumInstitutions have a row in the table; the
\* id NumInstitutions + 1 occurs only inside children_ids / parent_ids.
RowIds == 1 .. NumInstitutions
InstIds == 1 .. (NumInstitutions + 1)

\* One entry of a children_ids / parent_ids cell: <<row id, column, id>>.
Listings == RowIds \X {"children_ids", "parent_ids"} \X InstIds

\* A cell "a; b; c" is held as the sequence row[col].split('; ') gives; the
\* empty sequence is the empty (NaN) cell that lines 26 and 31 skip.
CellOf(L, r, col) == SortedSeq({l[3] : l \in {m \in L : m[1] = r /\ m[2] = col}})

\* The table read by __init__ (line 8).  The three count columns differ per
\* row and per column, so that a sum tells which rows went into it.
InstitutionRow(L, r) ==
    [id             |-> r,
     display_name   |-> r,
     author_count   |-> Pow(2, r - 1),
     works_count    |-> 10 * Pow(2, r - 1),
     cited_by_count |-> 100 * Pow(2, r - 1),
     children_ids   |-> CellOf(L, r, "children_ids"),
     parent_ids     |-> CellOf(L, r, "parent_ids")]

InstitutionTable(L) == [r \in RowIds |-> InstitutionRow(L, r)]

\* The subsets of S with at most k elements.
RECURSIVE SubsetsUpTo(_, _)
SubsetsUpTo(S, k) ==
    IF k = 0 THEN {{}}
    ELSE LET smaller == SubsetsUpTo(S, k - 1)
         IN smaller \cup {T \cup {x} : T \in smaller, x \in S}

InstitutionTables == {InstitutionTable(L) : L \in SubsetsUpTo(Listings, MaxListed)}

EmptyGraph == [nodes |-> {}, edges |-> {}]

\* nx.DiGraph.add_node / add_edge (add_edge adds both end points).
add_node(g, n) == [g EXCEPT !.nodes = @ \cup {n}]

add_edge_swapped(g, u, v) ==
    [nodes |-> g.nodes \cup {u, v}, edges |-> g.edges \cup {<<v, u>>}]

add_edge(g, u, v) ==
    [nodes |-> g.nodes \cup {u, v}, edges |-> g.edges \cup {<<u, v>>}]

RECURSIVE add_edges_from(_, _, _)
add_edges_from(g, u, cell) ==
    IF cell = <<>> THEN g
    ELSE add_edges_from(add_edge(g, u, Head(cell)), u, Tail(cell))

RECURSIVE add_edges_to(_, _, _)
add_edges_to(g, cell, v) ==
    IF cell = <<>> THEN g
    ELSE add_edges_to(add_edge(g, Head(cell), v), Tail(cell), v)

\* _build_graph, lines 25-34: the edges one row contributes.
RowEdges(g, row) ==
    add_edges_to(add_edges_from(g, row.id, row.children_ids),
                 row.parent_ids, row.id)

\* _build_graph, lines 17-22: the first loop adds every row's id as a node.
RECURSIVE AddNodes(_, _)
AddNodes(g, rows) ==
    IF rows = <<>> THEN g ELSE AddNodes(add_node(g, Head(rows).id), Tail(rows))

\* _build_graph, lines 25-34: the second loop adds every row's edges.
RECURSIVE AddAllEdges(_, _)
AddAllEdges(g, rows) ==
    IF rows = <<>> THEN g ELSE AddAllEdges(RowEdges(g, Head(rows)), Tail(rows))

\* _build_graph, lines 12-34.
_build_graph(table) == AddAllEdges(AddNodes(EmptyGraph, table), table)

Successors(g, S) == {e[2] : e \in {d \in g.edges : d[1] \in S}}
Predecessors(g, S) == {e[1] : e \in {d \in g.edges : d[2] \in S}}

\* Breadth-first search as nx.bfs_edges runs it: the source is visited from
\* the start, every node is reported once, when it is first discovered.
RECURSIVE BfsForward(_, _, _)
BfsForward(g, frontier, visited) ==
    LET new == Successors(g, frontier) \ visited
    IN IF new = {} THEN {}
       ELSE new \cup BfsForward(g, new, visited \cup new)

RECURSIVE BfsBackward(_, _, _)
BfsBackward(g, frontier, visited) ==
    LET new == Predecessors(g, frontier) \ visited
    IN IF new = {} THEN {}
       ELSE new \cup BfsBackward(g, new, visited \cup new)

\* nx.descendants / nx.ancestors: the nodes discovered, the source excluded.
descendants_with_source(g, source) == BfsForward(g, {source}, {})

descendants(g, source) == BfsForward(g, {source}, {source})

ancestors(g, source) == BfsBackward(g, {source}, {source})

\* get_full_lineage, lines 36-46.  Both calls raise NetworkXError only for
\* an id that is no node of the graph.
get_full_lineage(g, institution_id) ==
    IF institution_id \in g.nodes
    THEN [ancestors   |-> ancestors(g, institution_id),
          descendants |-> descendants(g, institution_id)]
    ELSE [ancestors |-> {}, descendants |-> {}]

\* df[df['id'].isin(ids)]: the rows selected, in table order.
RowsIsin(table, ids) == SelectSeq(table, LAMBDA row : row.id \in ids)

\* df[df['id'] == institution_id].iloc[0]
FirstRowWithId(table, institution_id) ==
    Head(SelectSeq(table, LAMBDA row : row.id = institution_id))

RECURSIVE SumAuthorCount(_)
SumAuthorCount(rows) ==
    IF rows = <<>> THEN 0 ELSE Head(rows).author_count + SumAuthorCount(Tail(rows))

RECURSIVE SumWorksCount(_)
SumWorksCount(rows) ==
    IF rows = <<>> THEN 0 ELSE Head(rows).works_count + SumWorksCount(Tail(rows))

RECURSIVE SumCitedByCount(_)
SumCitedByCount(rows) ==
    IF rows = <<>> THEN 0 ELSE Head(rows).cited_by_count + SumCitedByCount(Tail(rows))

\* get_hierarchy_metrics, lines 48-69.
get_hierarchy_metrics(table, g, institution_id) ==
    LET lineage       == get_full_lineage(g, institution_id)
        inst_data     == FirstRowWithId(table, institution_id)
        children_ids  == lineage.descendants
        children_data == RowsIsin(table, children_ids)
    IN [institution_name    |-> inst_data.display_name,
        direct_author_count |-> inst_data.author_count,
        total_author_count  |-> inst_data.author_count + SumAuthorCount(children_data),
        direct_works_count  |-> inst_data.works_count,
        total_works_count   |-> inst_data.works_count + SumWorksCount(children_data),
        direct_citations    |-> inst_data.cited_by_count,
        total_citations     |-> inst_data.cited_by_count + SumCitedByCount(children_data),
        num_children        |-> Cardinality(children_ids),
        num_ancestors       |-> Cardinality(lineage.ancestors)]

\* create_lineage_summary, lines 83-96: the row appended for one institution.
LineageRow(row, metrics) ==
    [id                  |-> row.id,
     institution_name    |-> metrics.institution_name,
     direct_author_count |-> metrics.direct_author_count,
     total_author_count  |-> metrics.total_author_count,
     direct_works_count  |-> metrics.direct_works_count,
     total_works_count   |-> metrics.total_works_count,
     direct_citations    |-> metrics.direct_citations,
     total_citations     |-> metrics.total_citations,
     num_children        |-> metrics.num_children,
     num_ancestors       |-> metrics.num_ancestors,
     has_parent          |-> metrics.num_ancestors > 0,
     is_parent           |-> metrics.num_children > 0]

\* sort_values('total_author_count', ascending=False), line 100: the default
\* sort is not stable, so rows with equal keys may come out in any order.
IsSortedDescending(s) ==
    \A i \in 1 .. (Len(s) - 1) : s[i].total_author_count >= s[i + 1].total_author_count

RowOrders(s) ==
    {[i \in DOMAIN s |-> s[p[i]]] :
        p \in {q \in [DOMAIN s -> DOMAIN s] : \A i, j \in DOMAIN s : i # j => q[i] # q[j]}}

SortedDescending(s) == {t \in RowOrders(s) : IsSortedDescending(t)}

LineageIdle ==
    /\ df = <<>>
    /\ graph = EmptyGraph
    /\ lineage_data = <<>>
    /\ lineage_df = <<>>
    /\ l_idx = 0
    /\ l_pc = "idle"

\* main, line 123: the analyzer is constructed on some input table.
LineageInit ==
    /\ df \in InstitutionTables
    /\ graph = EmptyGraph
    /\ lineage_data = <<>>
    /\ lineage_df = <<>>
    /\ l_idx = 1
    /\ l_pc = "build"

\* __init__, lines 8-10: _build_graph runs both of its loops over the table.
BuildGraph ==
    /\ l_pc = "build"
    /\ graph' = _build_graph(df)
    /\ l_pc' = "summary"
    /\ UNCHANGED <<df, lineage_data, lineage_df, l_idx, notLineageVars>>

\* create_lineage_summary, lines 78-96: one iteration of the loop.
SummariseInstitution ==
    /\ l_pc = "summary"
    /\ l_idx <= Len(df)
    /\ lineage_data' =
          Append(lineage_data,
                 LineageRow(df[l_idx], get_hierarchy_metrics(df, graph, df[l_idx].id)))
    /\ IF l_idx = Len(df)
       THEN l_idx' = l_idx /\ l_pc' = "save"
       ELSE l_idx' = l_idx + 1 /\ l_pc' = l_pc
    /\ UNCHANGED <<df, graph, lineage_df, notLineageVars>>

\* create_lineage_summary, lines 99-104: sort and write.
SaveLineage ==
    /\ l_pc = "save"
    /\ lineage_df' \in SortedDescending(lineage_data)
    /\ l_pc' = "done"
    /\ UNCHANGED <<df, graph, lineage_data, l_idx, notLineageVars>>

LineageNext == BuildGraph \/ SummariseInstitution \/ SaveLineage

(***************************************************************************)
(* step2_combinecsvs.py                                                    *)
(***************************************************************************)
\* Bounds of the per-paper CSVs.
MaxPapers == 2
MaxAuthorsPerPaper == 2

\* The paper numbers, in the order sorted(csv_dir.glob("*_metadata.csv"))
\* lists their files (line 11): file names compare as text, so
\* paper10_metadata.csv comes before paper1_metadata.csv.
PaperPool == <<10, 1, 2, 3, 4>>

\* An author id is held as the segments author_id.split("/") gives.
AuthorId(tail) == <<"https:", "", "openalex.org", tail>>

\* The (author_name, author_id) pairs of the authorship rows, in ascending
\* (author_name, author_id) order, the order groupby sorts its keys in.  One
\* name occurs with two ids and one id under two names.
AuthorPool ==
    <<[author_name |-> "A. Lee", author_id |-> AuthorId("A1")],
      [author_name |-> "Ann Lee", author_id |-> AuthorId("A1")],
      [author_name |-> "Ann Lee", author_id |-> AuthorId("A2")]>>

KeyRank(key) == CHOOSE i \in DOMAIN AuthorPool : AuthorPool[i] = key

\* The rows of one per-paper CSV: at least one authorship.
PaperRows == UNION {[1 .. n -> Range(AuthorPool)] : n \in 1 .. MaxAuthorsPerPaper}

PaperFiles ==
    {[i \in 1 .. MaxPapers |-> [paper_number |-> PaperPool[i], rows |-> f[i]]] :
        f \in [1 .. MaxPapers -> PaperRows]}

\* Lines 18-20: the frame of one file, with its paper_number column.
ReadFrame(file) ==
    [i \in DOMAIN file.rows |->
        [author_name  |-> file.rows[i].author_name,
         author_id    |-> file.rows[i].author_id,
         paper_number |-> file.paper_number]]

\* pd.concat(records, ignore_index=True), line 24.
RECURSIVE Concat(_)
Concat(frames) == IF frames = <<>> THEN <<>> ELSE Head(frames) \o Concat(Tail(frames))

\* drop_duplicates(subset=[author_name, author_id, paper_number]), line 27:
\* the first of equal rows is kept.
RECURSIVE DropDuplicates(_, _)
DropDuplicates(rows, seen) ==
    IF rows = <<>> THEN <<>>
    ELSE IF Head(rows) \in seen
         THEN DropDuplicates(Tail(rows), seen)
         ELSE <<Head(rows)>> \o DropDuplicates(Tail(rows), seen \cup {Head(rows)})

GroupKey(row) == [author_name |-> row.author_name, author_id |-> row.author_id]

\* The paper_number values of one group, in row order.
GroupValues(rows, key) ==
    LET members == SelectSeq(rows, LAMBDA row : GroupKey(row) = key)
    IN [i \in DOMAIN members |-> members[i].paper_number]

\* The aggregation of line 31.
\* (the same aggregation without the sort: first occurrences, in row order)
AggregateUnsorted(x) == DropDuplicates(x, {})

Aggregate(x) == SortedSeq(Range(x))

\* ", ".join(map(str, x)), line 36.
RECURSIVE JoinNumbers(_)
JoinNumbers(x) ==
    IF x = <<>> THEN ""
    ELSE IF Len(x) = 1 THEN ToString(Head(x))
         ELSE ToString(Head(x)) \o ", " \o JoinNumbers(Tail(x))

\* x.split("/")[-1], line 39.
LastSegment(segments) == segments[Len(segments)]

\* Lines 30-43: one row per group, the groups in ascending key order.
GroupedRow(rows, key) ==
    LET paper_number == Aggregate(GroupValues(rows, key))
    IN [c \in {"Author", "No. Papers", "Notes", "OA_Profile", "OA_ID", "Papers"} |->
           CASE c = "Author"     -> key.author_name
             [] c = "No. Papers" -> Len(paper_number)
             [] c = "Notes"      -> ""
             [] c = "OA_Profile" -> key.author_id
             [] c = "OA_ID"      -> LastSegment(key.author_id)
             [] c = "Papers"     -> JoinNumbers(paper_number)]

Grouped(rows) ==
    LET keys  == {GroupKey(rows[i]) : i \in DOMAIN rows}
        order == SortedSeq({KeyRank(k) : k \in keys})
    IN [i \in DOMAIN order |-> GroupedRow(rows, AuthorPool[order[i]])]

\* Lines 24-43.
CombineAuthors(frames) == Grouped(DropDuplicates(Concat(frames), {}))

CombineIdle ==
    /\ csv_files = <<>>
    /\ records = <<>>
    /\ final_df = <<>>
    /\ c_pc = "idle"

CombineInit ==
    /\ csv_files \in PaperFiles
    /\ records = <<>>
    /\ final_df = <<>>
    /\ c_pc = "read"

\* Lines 14-21: one iteration of the loop over the files.
ReadPaperCsv ==
    /\ c_pc = "read"
    /\ Len(records) < Len(csv_files)
    /\ records' = Append(records, ReadFrame(csv_files[Len(records) + 1]))
    /\ c_pc' = IF Len(records') = Len(csv_files) THEN "combine" ELSE "read"
    /\ UNCHANGED <<csv_files, final_df, notCombineVars>>

\* Lines 24-47: combine, deduplicate, group and write authors_metadata.csv.
WriteAuthorsMetadata ==
    /\ c_pc = "combine"
    /\ final_df' = CombineAuthors(records)
    /\ c_pc' = "done"
    /\ UNCHANGED <<csv_files, records, notCombineVars>>

CombineNext == ReadPaperCsv \/ WriteAuthorsMetadata

(***************************************************************************)
(* The scrapers: what they share                                           *)
(***************************************************************************)
\* Bounds: rows of a scraper's input table, pages of one author's works.
MaxRows == 3
MaxPages == 2

\* A missing cell (pandas NaN; an absent dict key has no entry at all).
NaN == "<NaN>"

\* dict.get(key, default) and dict.update(other).
Get(d, key, default) == IF key \in DOMAIN d THEN d[key] ELSE default

Update(d, other) ==
    [k \in DOMAIN d \cup DOMAIN other |-> IF k \in DOMAIN other THEN other[k] ELSE d[k]]

\* sep.join(strings)
RECURSIVE Join(_, _)
Join(sep, strings) ==
    IF strings = <<>> THEN ""
    ELSE IF Len(strings) = 1 THEN Head(strings)
         ELSE Head(strings) \o sep \o Join(sep, Tail(strings))

\* What the server does with one request: the call raises (a network-level
\* failure), or a response with a status code and a body arrives.
Raised == [raised |-> TRUE, status_code |-> 0, body |-> <<>>]
Response(status_code, body) == [raised |-> FALSE, status_code |-> status_code, body |-> body]

\* The status `response.status_code != 200` tests for, and a reply with
\* another status (429 Too Many Requests).
HTTP_OK == 200
ErrorReply == Response(429, <<>>)

\* The entries of `events`.
RequestEvent(row, page_cursor, reply) ==
    [kind |-> "request", row |-> row, cursor |-> page_cursor,
     raised |-> reply.raised, status_code |-> reply.status_code, body |-> reply.body]

SleepEvent(row) == [kind |-> "sleep", row |-> row]

EmptyFile == [columns |-> <<>>, rows |-> <<>>]

(***************************************************************************)
(* step2_openalex_profile_scraper.py                                       *)
(***************************************************************************)
\* authors_metadata.csv as main reads it (line 153): the columns
\* step2_combinecsvs.py writes; the empty Notes cell reads back as NaN.
RosterRow(i) ==
    [c \in {"Author", "No. Papers", "Notes", "OA_Profile", "OA_ID"} |->
        CASE c = "Author"     -> "Author " \o ToString(i)
          [] c = "No. Papers" -> i
          [] c = "Notes"      -> NaN
          [] c = "OA_Profile" -> AuthorId("A" \o ToString(i))
          [] c = "OA_ID"      -> "A" \o ToString(i)]

RosterTables == {[i \in 1 .. n |-> RosterRow(i)] : n \in 0 .. MaxRows}

\* One entry of an author's 'affiliations' list.
Affiliation(name, id, years) ==
    [institution |-> [display_name |-> name, id |-> id], years |-> years]

\* The author objects the API may answer with: a full one, with two
\* institutions reported for 2021, and a sparse one whose only affiliation
\* has no years.
AuthorJsons ==
    {[k \in {"orcid", "display_name", "display_name_alternatives", "works_count",
             "cited_by_count", "summary_stats", "affiliations"} |->
         CASE k = "orcid"          -> "https://orcid.org/0000-0001"
           [] k = "display_name"   -> "A. Lee"
           [] k = "display_name_alternatives" -> <<"Ann Lee", "A Lee">>
           [] k = "works_count"    -> 12
           [] k = "cited_by_count" -> 340
           [] k = "summary_stats"  ->
                  [m \in {"2yr_mean_citedness", "h_index", "i10_index"} |->
                      CASE m = "2yr_mean_citedness" -> 2
                        [] m = "h_index"   -> 5
                        [] m = "i10_index" -> 3]
           [] k = "affiliations"   ->
                  <<Affiliation("OpenAI", "https://openalex.org/I1", <<2021, 2020>>),
                    Affiliation("MIT", "https://openalex.org/I2", <<2021>>)>>],
     [k \in {"display_name", "affiliations"} |->
         CASE k = "display_name" -> "B. Kim"
           [] k = "affiliations" ->
                  <<Affiliation("Tsinghua", "https://openalex.org/I3", <<>>)>>]}

ProfileReplies ==
    {Raised, ErrorReply}
        \cup {Response(HTTP_OK, <<j>>) : j \in AuthorJsons}

\* response.raise_for_status() raises for a 4xx or 5xx status.
RaisesForStatus(reply) == reply.status_code >= 400 /\ reply.status_code < 600

\* The requests get_author_data issues for one row (line 16): one.
RequestsWithRetry(row, reply) ==
    IF reply.raised \/ RaisesForStatus(reply)
    THEN <<RequestEvent(row, "", reply), RequestEvent(row, "", reply)>>
    ELSE <<RequestEvent(row, "", reply)>>

Requests(row, reply) == <<RequestEvent(row, "", reply)>>

\* get_author_data, lines 7-24, and get_institution_data, step6 lines 14-29:
\* <<>> stands for None, <<json>> for the decoded body.
get_data(reply) ==
    IF reply.raised \/ RaisesForStatus(reply) THEN <<>> ELSE reply.body

\* `not author_data`: None and the empty dict are both false.
Falsy(data) == data = <<>> \/ DOMAIN data[1] = {}

\* process_affiliations, lines 26-52.
RECURSIVE YearEntries(_, _, _)
YearEntries(by_year, entry, years) ==
    IF years = <<>> THEN by_year
    ELSE YearEntries(Update(by_year, [y \in {Head(years)} |-> entry]), entry, Tail(years))

RECURSIVE process_affiliations_from(_, _)
process_affiliations_from(acc, affiliations) ==
    IF affiliations = <<>> THEN acc
    ELSE LET affiliation == Head(affiliations)
             institution == Get(affiliation, "institution", <<>>)
             years       == Get(affiliation, "years", <<>>)
             entry       == [display_name |-> Get(institution, "display_name", ""),
                             id           |-> Get(institution, "id", "")]
         IN process_affiliations_from(
                IF years = <<>>
                THEN [acc EXCEPT !.no_year = Append(@, entry)]
                ELSE [acc EXCEPT !.by_year = YearEntries(@, entry, years)],
                Tail(affiliations))

process_affiliations(affiliations) ==
    process_affiliations_from([by_year |-> <<>>, no_year |-> <<>>], affiliations)

AffiliationColumn(year) == "affiliation-" \o ToString(year)
IdColumn(year) == "ID-" \o ToString(year)

\* Lines 103-106: the per-year cells of one author.
YearCells(by_year) ==
    [c \in {AffiliationColumn(y) : y \in DOMAIN by_year}
               \cup {IdColumn(y) : y \in DOMAIN by_year} |->
        LET y == CHOOSE z \in DOMAIN by_year : c \in {AffiliationColumn(z), IdColumn(z)}
        IN IF c = IdColumn(y) THEN by_year[y].id ELSE by_year[y].display_name]

\* Lines 109-115.
NoYearCells(no_year) ==
    IF no_year = <<>> THEN <<>>
    ELSE [c \in {"affiliation-noyear", "ID-noyear"} |->
             IF c = "ID-noyear"
             THEN Join("; ", [i \in DOMAIN no_year |-> no_year[i].id])
             ELSE Join("; ", [i \in DOMAIN no_year |-> no_year[i].display_name])]

static_columns ==
    <<"Author", "No. Papers", "Notes", "OA_Profile", "OA_ID", "ORCID", "Display_name",
      "Display_name_alternatives", "works_count", "cited_by_count",
      "2yr_mean_citedness", "h_index", "i10_index">>

\* Lines 78-115: the dict appended for one author.
author_info(row, author_data) ==
    LET summary_stats     == Get(author_data, "summary_stats", <<>>)
        affiliations_data == process_affiliations(Get(author_data, "affiliations", <<>>))
        basic ==
            [c \in Range(static_columns) |->
                CASE c = "ORCID"        -> Get(author_data, "orcid", "")
                  [] c = "Display_name" -> Get(author_data, "display_name", "")
                  [] c = "Display_name_alternatives" ->
                         Join(", ", Get(author_data, "display_name_alternatives", <<>>))
                  [] c = "works_count"    -> Get(author_data, "works_count", 0)
                  [] c = "cited_by_count" -> Get(author_data, "cited_by_count", 0)
                  [] c = "2yr_mean_citedness" -> Get(summary_stats, "2yr_mean_citedness", 0)
                  [] c = "h_index"   -> Get(summary_stats, "h_index", 0)
                  [] c = "i10_index" -> Get(summary_stats, "i10_index", 0)
                  [] OTHER -> row[c]]
    IN Update(Update(basic, YearCells(affiliations_data.by_year)),
              NoYearCells(affiliations_data.no_year))

\* Lines 139-141: the affiliation-* / ID-* columns sorted by
\* ('noyear' in x, x).  "ID-" sorts before "affiliation-", and the four-digit
\* years sort as their numbers do.  Every year with a column is in all_years
\* (line 104), here `years`.
year_columns(columns, years) ==
    LET id_years  == SortedSeq({y \in years : IdColumn(y) \in columns})
        aff_years == SortedSeq({y \in years : AffiliationColumn(y) \in columns})
    IN [i \in DOMAIN id_years |-> IdColumn(id_years[i])]
           \o [i \in DOMAIN aff_years |-> AffiliationColumn(aff_years[i])]
           \o (IF "ID-noyear" \in columns THEN <<"ID-noyear">> ELSE <<>>)
           \o (IF "affiliation-noyear" \in columns THEN <<"affiliation-noyear">> ELSE <<>>)

\* pd.DataFrame(list of dicts): the columns are the keys of all the dicts; a
\* key a dict lacks is NaN in its row.
DataFrameColumns(dicts) == UNION {DOMAIN dicts[i] : i \in DOMAIN dicts}

DataFrameRows(dicts, columns) ==
    [i \in DOMAIN dicts |-> [c \in columns |-> Get(dicts[i], c, NaN)]]

\* Lines 124-143.  Lines 127-131 add a year column only if no row has it,
\* which never happens: every year of all_years came from a row.
result_df(dicts, years) ==
    LET columns == DataFrameColumns(dicts)
        ordered == static_columns \o year_columns(columns, years)
    IN [columns |-> ordered, rows |-> DataFrameRows(dicts, Range(ordered))]

\* The row the loop goes to after a failed fetch: `continue`, line 75.
AfterFailedFetchBreak(i, table) == Len(table) + 1

AfterFailedFetch(i, table) == i + 1

\* enrich_author_data, lines 67-121: one iteration of the loop.
EnrichAuthor ==
    /\ script = "profile"
    /\ s_pc = "loop"
    /\ index <= Len(input_df)
    /\ \E reply \in ProfileReplies :
          LET row         == input_df[index]
              author_data == get_data(reply)
          IN IF Falsy(author_data)
             THEN /\ events' = events \o Requests(index, reply)
                  /\ index' = AfterFailedFetch(index, input_df)
                  /\ UNCHANGED <<new_data, all_years>>
             ELSE /\ events' = events \o Requests(index, reply) \o <<SleepEvent(index)>>
                  /\ new_data' = Append(new_data, author_info(row, author_data[1]))
                  /\ all_years' = all_years \cup
                         DOMAIN process_affiliations(
                                    Get(author_data[1], "affiliations", <<>>)).by_year
                  /\ index' = index + 1
    /\ UNCHANGED <<script, input_df, authors_data, works, cursor, out_file, s_pc,
                   notScrapeVars>>

\* enrich_author_data, lines 123-145, and main, lines 159-167: the enriched
\* table is built and written.  With no row in new_data the frame has no
\* columns and selecting static_columns (line 143) raises KeyError.
WriteEnrichedAuthors ==
    /\ script = "profile"
    /\ s_pc = "loop"
    /\ index > Len(input_df)
    /\ IF new_data = <<>>
       THEN s_pc' = "crashed" /\ UNCHANGED out_file
       ELSE s_pc' = "done" /\ out_file' = result_df(new_data, all_years)
    /\ UNCHANGED <<script, input_df, authors_data, index, new_data, all_years, works,
                   cursor, events, notScrapeVars>>

(***************************************************************************)
(* step6_openalex_institutions_enriching.py (and step5_..._enriching.py)   *)
(***************************************************************************)
\* all_institutions.csv: id and author_count per institution.
InstitutionInputRow(i) ==
    [id |-> "https://openalex.org/I" \o ToString(i), author_count |-> i]

InstitutionInputTables == {[i \in 1 .. n |-> InstitutionInputRow(i)] : n \in 0 .. MaxRows}

Associated(id, name, relationship) ==
    [id |-> id, display_name |-> name, relationship |-> relationship]

InstitutionJsons ==
    {[k \in {"display_name", "type", "geo", "works_count", "cited_by_count",
             "associated_institutions"} |->
         CASE k = "display_name"   -> "MIT"
           [] k = "type"           -> "education"
           [] k = "geo"            -> [country |-> "United States", city |-> "Cambridge"]
           [] k = "works_count"    -> 1000
           [] k = "cited_by_count" -> 5000
           [] k = "associated_institutions" ->
                  <<Associated("https://openalex.org/I8", "Lincoln Lab", "child"),
                    Associated("https://openalex.org/I9", "Broad", "child"),
                    Associated("https://openalex.org/I7", "MIT System", "parent"),
                    Associated("https://openalex.org/I6", "Harvard", "related")>>],
     [k \in {"display_name"} |-> "Unknown Lab"]}

InstitutionReplies ==
    {Raised, ErrorReply}
        \cup {Response(HTTP_OK, <<j>>) : j \in InstitutionJsons}

\* process_associated_institutions, step6 lines 31-49.
process_associated_institutions(associated_institutions) ==
    LET children == SelectSeq(associated_institutions,
                              LAMBDA inst : Get(inst, "relationship", "") = "child")
        parents  == SelectSeq(associated_institutions,
                              LAMBDA inst : Get(inst, "relationship", "") = "parent")
    IN [children     |-> Join("; ", [i \in DOMAIN children |-> Get(children[i], "display_name", "")]),
        children_ids |-> Join("; ", [i \in DOMAIN children |-> Get(children[i], "id", "")]),
        parents      |-> Join("; ", [i \in DOMAIN parents |-> Get(parents[i], "display_name", "")]),
        parents_ids  |-> Join("; ", [i \in DOMAIN parents |-> Get(parents[i], "id", "")])]

\* The keys of the dict of step6 lines 67-96, in insertion order.
institution_columns ==
    <<"id", "author_count", "display_name", "type", "country", "city",
      "display_name_acronyms", "display_name_alternatives", "works_count",
      "cited_by_count", "2yr_mean_citedness", "h_index", "i10_index", "wikipedia",
      "associated_institutions_children", "children_ids",
      "associated_institutions_parent", "parent_ids">>

\* step6 lines 67-96: the dict appended for one institution.
institution_info(row, institution_data) ==
    LET geo           == Get(institution_data, "geo", <<>>)
        summary_stats == Get(institution_data, "summary_stats", <<>>)
        ids           == Get(institution_data, "ids", <<>>)
        associated    == process_associated_institutions(
                             Get(institution_data, "associated_institutions", <<>>))
    IN [c \in Range(institution_columns) |->
           CASE c = "id"           -> row.id
             [] c = "author_count" -> row.author_count
             [] c = "country"      -> Get(geo, "country", "")
             [] c = "city"         -> Get(geo, "city", "")
             [] c \in {"display_name_acronyms", "display_name_alternatives"} ->
                    Join("; ", Get(institution_data, c, <<>>))
             [] c \in {"works_count", "cited_by_count"} -> Get(institution_data, c, 0)
             [] c \in {"2yr_mean_citedness", "h_index", "i10_index"} ->
                    Get(summary_stats, c, 0)
             [] c = "wikipedia"    -> Get(ids, "wikipedia", "")
             [] c = "associated_institutions_children" -> associated.children
             [] c = "children_ids" -> associated.children_ids
             [] c = "associated_institutions_parent"   -> associated.parents
             [] c = "parent_ids"   -> associated.parents_ids
             [] OTHER              -> Get(institution_data, c, "")]

\* enrich_institutions_data, step6 lines 60-101: one iteration of the loop.
EnrichInstitution ==
    /\ script = "institutions"
    /\ s_pc = "loop"
    /\ index <= Len(input_df)
    /\ \E reply \in InstitutionReplies :
          LET row              == input_df[index]
              institution_data == get_data(reply)
          IN IF Falsy(institution_data)
             THEN /\ events' = events \o Requests(index, reply)
                  /\ index' = AfterFailedFetch(index, input_df)
                  /\ UNCHANGED new_data
             ELSE /\ events' = events \o Requests(index, reply) \o <<SleepEvent(index)>>
                  /\ new_data' = Append(new_data, institution_info(row, institution_data[1]))
                  /\ index' = index + 1
    /\ UNCHANGED <<script, input_df, authors_data, all_years, works, cursor, out_file,
                   s_pc, notScrapeVars>>

\* enrich_institutions_data, step6 lines 103-109: the enriched table is
\* written, whatever it holds.
WriteEnrichedInstitutions ==
    /\ script = "institutions"
    /\ s_pc = "loop"
    /\ index > Len(input_df)
    /\ out_file' = [columns |-> IF new_data = <<>> THEN <<>> ELSE institution_columns,
                    rows    |-> new_data]
    /\ s_pc' = "summary"
    /\ UNCHANGED <<script, input_df, authors_data, index, new_data, all_years, works,
                   cursor, events, notScrapeVars>>

\* main, step6 lines 117-121: the summary reads columns of the enriched frame;
\* a frame built from no rows has no columns and enriched_df['works_count']
\* raises KeyError.
PrintInstitutionSummary ==
    /\ script = "institutions"
    /\ s_pc = "summary"
    /\ s_pc' = IF "works_count" \in Range(out_file.columns) THEN "done" ELSE "crashed"
    /\ UNCHANGED <<script, input_df, authors_data, index, new_data, all_years, works,
                   cursor, out_file, events, notScrapeVars>>

(***************************************************************************)
(* step4_openalex_profile_works_scraper.py                                 *)
(***************************************************************************)
\* Python's None (a missing next_cursor), and what `while cursor:` tests.
None == "<None>"
TruthyAny(c) == TRUE

Truthy(c) == c \notin {None, ""}

\* authors_enriched.csv as csv.DictReader reads it (lines 11-14; the ORCID
\* scraper reads the same file): a row either has its ids or has them blank.
AuthorsRow(i, filled) ==
    [c \in {"Author ID", "Author Name", "ORCID"} |->
        CASE c = "Author ID"   -> IF filled THEN "https://openalex.org/A" \o ToString(i) ELSE ""
          [] c = "Author Name" -> "Author " \o ToString(i)
          [] c = "ORCID"       -> IF filled THEN "https://orcid.org/000" \o ToString(i) ELSE ""]

AuthorsTables ==
    {[i \in 1 .. n |-> AuthorsRow(i, f[i])] :
        <<n, f>> \in {q \in (0 .. MaxRows) \X [1 .. MaxRows -> BOOLEAN] :
                         \A k \in (q[1] + 1) .. MaxRows : q[2][k]}}

\* line 57: author_id.startswith("https://openalex.org/")
IsOpenAlexId(author_id) == author_id # ""

\* The work the server lists for author `row` on page `page`: some keys are
\* absent, so that the defaults of lines 64-79 are used.
Work(row, page) ==
    [k \in {"id", "title", "cited_by_count", "authorships"} |->
        CASE k = "id"    -> "https://openalex.org/W" \o ToString(row) \o ToString(page)
          [] k = "title" -> "Title " \o ToString(page)
          [] k = "cited_by_count" -> page
          [] k = "authorships" ->
                 <<[author |-> [id |-> "https://openalex.org/A" \o ToString(row),
                                display_name |-> "Author " \o ToString(row)]],
                   [author |-> [id |-> "https://openalex.org/A0",
                                display_name |-> "Co Author"]]>>]

\* The number of the page the next request of author `row` asks for.
PageNumber(row) ==
    1 + Cardinality({i \in DOMAIN events :
                        events[i].kind = "request" /\ events[i].row = row})

\* The replies of the works endpoint to the request for page `page`: the
\* last page has no next_cursor; an earlier page names the next one.  An
\* author has at most MaxPages pages.
WorksReplies(row, page) ==
    IF page > MaxPages THEN {}
    ELSE {Raised, ErrorReply,
          Response(HTTP_OK, [results |-> <<Work(row, page)>>, meta |-> [count |-> page]]),
          Response(HTTP_OK, [results |-> <<Work(row, page)>>, meta |-> [next_cursor |-> None]])}
             \cup (IF page < MaxPages
                   THEN {Response(HTTP_OK,
                                  [results |-> <<Work(row, page)>>,
                                   meta    |-> [next_cursor |-> "cursor" \o ToString(page + 1)]])}
                   ELSE {})

\* works.extend(results), line 34.
extend_front(list, results) == results \o list

extend(list, results) == list \o results

fieldnames ==
    <<"Author ID", "Author Name", "Work ID", "Title", "DOI", "Year", "Publication Date",
      "Type", "Language", "Citations", "Topics", "Co-Authors">>

\* Lines 64-94: the row written for one work.
WorkRow(author_id, author_name, work) ==
    LET topics     == Get(work, "topics", <<>>)
        topic_names == [i \in DOMAIN topics |-> topics[i].display_name]
        others     == SelectSeq(Get(work, "authorships", <<>>),
                                LAMBDA a : a.author.id # author_id)
        co_authors == [i \in DOMAIN others |-> others[i].author.display_name]
    IN [c \in Range(fieldnames) |->
           CASE c = "Author ID"   -> author_id
             [] c = "Author Name" -> author_name
             [] c = "Work ID"     -> Get(work, "id", "N/A")
             [] c = "Title"       -> Get(work, "title", "N/A")
             [] c = "DOI"         -> Get(work, "doi", "N/A")
             [] c = "Year"        -> Get(work, "publication_year", "N/A")
             [] c = "Publication Date" -> Get(work, "publication_date", "N/A")
             [] c = "Type"        -> Get(work, "type", "N/A")
             [] c = "Language"    -> Get(work, "language", "N/A")
             [] c = "Citations"   -> Get(work, "cited_by_count", 0)
             [] c = "Topics"      -> IF topic_names = <<>> THEN "N/A" ELSE Join(", ", topic_names)
             [] c = "Co-Authors"  -> IF co_authors = <<>> THEN "N/A" ELSE Join(", ", co_authors)]

\* Lines 45-51: the output file is opened and its header written.
OpenWorksOutput ==
    /\ script = "works"
    /\ s_pc = "open"
    /\ out_file' = [columns |-> fieldnames, rows |-> <<>>]
    /\ index' = 1
    /\ s_pc' = "loop"
    /\ UNCHANGED <<script, input_df, authors_data, new_data, all_years, works, cursor,
                   events, notScrapeVars>>

\* Lines 53-59: an author without an OpenAlex id is skipped.
SkipInvalidAuthor ==
    /\ script = "works"
    /\ s_pc = "loop"
    /\ index <= Len(authors_data)
    /\ ~IsOpenAlexId(authors_data[index]["Author ID"])
    /\ index' = index + 1
    /\ UNCHANGED <<script, input_df, authors_data, new_data, all_years, works, cursor,
                   out_file, events, s_pc, notScrapeVars>>

\* Line 61, fetch_all_works lines 17-20: the pagination starts.
BeginFetchAllWorks ==
    /\ script = "works"
    /\ s_pc = "loop"
    /\ index <= Len(authors_data)
    /\ IsOpenAlexId(authors_data[index]["Author ID"])
    /\ works' = <<>>
    /\ cursor' = "*"
    /\ s_pc' = "fetching"
    /\ UNCHANGED <<script, input_df, authors_data, index, new_data, all_years, out_file,
                   events, notScrapeVars>>

\* fetch_all_works, lines 22-40: one iteration of `while cursor:`.  Nothing
\* catches an exception of requests.get: it ends the script (the `with`
\* block closes the file as it stands).
FetchWorksPage ==
    /\ script = "works"
    /\ s_pc = "fetching"
    /\ Truthy(cursor)
    /\ \E reply \in WorksReplies(index, PageNumber(index)) :
          /\ events' = events \o <<RequestEvent(index, cursor, reply)>>
                  \o (IF ~reply.raised /\ reply.status_code = HTTP_OK
                      THEN <<SleepEvent(index)>> ELSE <<>>)
          /\ IF reply.raised
             THEN s_pc' = "crashed" /\ UNCHANGED <<works, cursor>>
             ELSE IF reply.status_code # HTTP_OK
                  THEN s_pc' = "write" /\ UNCHANGED <<works, cursor>>
                  ELSE /\ works' = extend(works, Get(reply.body, "results", <<>>))
                       /\ cursor' = Get(Get(reply.body, "meta", <<>>), "next_cursor", None)
                       /\ s_pc' = IF Truthy(cursor') THEN "fetching" ELSE "write"
    /\ UNCHANGED <<script, input_df, authors_data, index, new_data, all_years, out_file,
                   notScrapeVars>>

\* Lines 63-96: the works fetch_all_works returned are written, one row each.
WriteWorkRows ==
    /\ script = "works"
    /\ s_pc = "write"
    /\ LET author == authors_data[index]
       IN out_file' =
              [out_file EXCEPT !.rows =
                  @ \o [i \in DOMAIN works |->
                           WorkRow(author["Author ID"],
                                   Get(author, "Author Name", "Unknown"), works[i])]]
    /\ index' = index + 1
    /\ s_pc' = "loop"
    /\ UNCHANGED <<script, input_df, authors_data, new_data, all_years, works, cursor,
                   events, notScrapeVars>>

\* Line 98: every author is done and the file is closed.
CloseWorksOutput ==
    /\ script = "works"
    /\ s_pc = "loop"
    /\ index > Len(authors_data)
    /\ s_pc' = "done"
    /\ UNCHANGED <<script, input_df, authors_data, index, new_data, all_years, works,
                   cursor, out_file, events, notScrapeVars>>

(***************************************************************************)
(* orcid_scraper.py                                                        *)
(***************************************************************************)
orcid_columns ==
    <<"ORCID - Employment", "ORCID - Keywords", "ORCID - Country", "ORCID - Websites">>

\* The sections of a profile page the selectors of lines 34-61 find: a page
\* with every section, and a page with none.
OrcidPages ==
    {[k \in {"employment", "keywords", "country", "websites"} |->
         CASE k = "employment" -> <<"OpenAI (2020 to present)", "MIT (2015 to 2020)">>
           [] k = "keywords"   -> <<"machine learning">>
           [] k = "country"    -> "United States"
           [] k = "websites"   -> <<"Homepage">>],
     [k \in {"markup"} |-> "changed"]}

OrcidReplies ==
    {Raised, ErrorReply}
        \cup {Response(HTTP_OK, page) : page \in OrcidPages}

JoinOrNA(strings) == IF strings = <<>> THEN "N/A" ELSE Join(", ", strings)

\* scrape_orcid_profile, lines 25-71, once requests.get has returned: the
\* empty dict for a status other than 200, else the four scraped fields.
scrape_orcid_profile(reply) ==
    IF reply.status_code # HTTP_OK THEN <<>>
    ELSE [c \in Range(orcid_columns) |->
             CASE c = "ORCID - Employment" -> JoinOrNA(Get(reply.body, "employment", <<>>))
               [] c = "ORCID - Keywords"   -> JoinOrNA(Get(reply.body, "keywords", <<>>))
               [] c = "ORCID - Country"    -> Get(reply.body, "country", "N/A")
               [] c = "ORCID - Websites"   -> JoinOrNA(Get(reply.body, "websites", <<>>))]

\* line 84: orcid_url and orcid_url.startswith("https://orcid.org/")
IsOrcidUrl(orcid_url) == orcid_url # ""

\* csv.DictWriter.writerow: one cell per field name, '' for a key the dict
\* lacks.
writerow_if_complete(file, row) ==
    IF \A c \in Range(file.columns) : c \in DOMAIN row
    THEN [file EXCEPT !.rows = Append(@, [c \in Range(file.columns) |-> Get(row, c, "")])]
    ELSE file

writerow(file, row) ==
    [file EXCEPT !.rows = Append(@, [c \in Range(file.columns) |-> Get(row, c, "")])]

\* The order of the keys of a row of authors_enriched.csv.
authors_columns == <<"Author ID", "Author Name", "ORCID">>

\* Lines 74-79: the output file is opened and its header written;
\* authors_data[0] raises IndexError when the input has no rows.
OpenOrcidOutput ==
    /\ script = "orcid"
    /\ s_pc = "open"
    /\ IF authors_data = <<>>
       THEN s_pc' = "crashed" /\ UNCHANGED <<out_file, index>>
       ELSE /\ out_file' = [columns |-> authors_columns \o orcid_columns, rows |-> <<>>]
            /\ index' = 1
            /\ s_pc' = "loop"
    /\ UNCHANGED <<script, input_df, authors_data, new_data, all_years, works, cursor,
                   events, notScrapeVars>>

\* Lines 81-96, for an author without an ORCID url: the row is written as
\* it is.
WriteAuthorWithoutOrcid ==
    /\ script = "orcid"
    /\ s_pc = "loop"
    /\ index <= Len(authors_data)
    /\ ~IsOrcidUrl(authors_data[index]["ORCID"])
    /\ out_file' = writerow(out_file, authors_data[index])
    /\ events' = Append(events, SleepEvent(index))
    /\ index' = index + 1
    /\ UNCHANGED <<script, input_df, authors_data, new_data, all_years, works, cursor,
                   s_pc, notScrapeVars>>

\* Lines 81-96, for an author with an ORCID url: the page is requested and
\* the row written.  Nothing catches an exception of requests.get.
ScrapeOrcidAuthor ==
    /\ script = "orcid"
    /\ s_pc = "loop"
    /\ index <= Len(authors_data)
    /\ IsOrcidUrl(authors_data[index]["ORCID"])
    /\ \E reply \in OrcidReplies :
          IF reply.raised
          THEN /\ events' = Append(events, RequestEvent(index, "", reply))
               /\ s_pc' = "crashed"
               /\ UNCHANGED <<authors_data, out_file, index>>
          ELSE LET orcid_data == scrape_orcid_profile(reply)
                   author     == Update(authors_data[index], orcid_data)
               IN /\ authors_data' = [authors_data EXCEPT ![index] = author]
                  /\ out_file' = writerow(out_file, author)
                  /\ events' = events \o <<RequestEvent(index, "", reply), SleepEvent(index)>>
                  /\ index' = index + 1
                  /\ s_pc' = s_pc
    /\ UNCHANGED <<script, input_df, new_data, all_years, works, cursor, notScrapeVars>>

\* Line 98: every author is done and the file is closed.
CloseOrcidOutput ==
    /\ script = "orcid"
    /\ s_pc = "loop"
    /\ index > Len(authors_data)
    /\ s_pc' = "done"
    /\ UNCHANGED <<script, input_df, authors_data, index, new_data, all_years, works,
                   cursor, out_file, events, notScrapeVars>>

(***************************************************************************)
(* The scrapers: start and steps                                           *)
(***************************************************************************)
ScrapeIdle ==
    /\ script = "idle"
    /\ input_df = <<>>
    /\ authors_data = <<>>
    /\ index = 0
    /\ new_data = <<>>
    /\ all_years = {}
    /\ works = <<>>
    /\ cursor = ""
    /\ out_file = EmptyFile
    /\ events = <<>>
    /\ s_pc = "idle"

\* One of the four scripts is started on some input table.
ScrapeInit ==
    /\ script \in {"profile", "institutions", "works", "orcid"}
    /\ input_df \in CASE script = "profile"      -> RosterTables
                    [] script = "institutions" -> InstitutionInputTables
                    [] OTHER                   -> {<<>>}
    /\ authors_data \in IF script \in {"works", "orcid"} THEN AuthorsTables ELSE {<<>>}
    /\ index = IF script \in {"profile", "institutions"} THEN 1 ELSE 0
    /\ new_data = <<>>
    /\ all_years = {}
    /\ works = <<>>
    /\ cursor = ""
    /\ out_file = EmptyFile
    /\ events = <<>>
    /\ s_pc = IF script \in {"profile", "institutions"} THEN "loop" ELSE "open"

ScrapeNext ==
    \/ EnrichAuthor
    \/ WriteEnrichedAuthors
    \/ EnrichInstitution
    \/ WriteEnrichedInstitutions
    \/ PrintInstitutionSummary
    \/ OpenWorksOutput
    \/ SkipInvalidAuthor
    \/ BeginFetchAllWorks
    \/ FetchWorksPage
    \/ WriteWorkRows
    \/ CloseWorksOutput
    \/ OpenOrcidOutput
    \/ WriteAuthorWithoutOrcid
    \/ ScrapeOrcidAuthor
    \/ CloseOrcidOutput

(***************************************************************************)
(* Specifications: one per script                                          *)
(***************************************************************************)
(***************************************************************************)
(* CSV files and data frames of the per-organization stages                *)
(*                                                                         *)
(* A table is [columns |-> sequence of names, rows |-> sequence of rows],  *)
(* a row being a function from the column names to cells.  In a file every *)
(* cell is text.  In a data frame a cell is the text of its value (a       *)
(* number or a boolean is held as the text to_csv writes for it, read_csv  *)
(* parsing it back to the same value), NaN or None.                        *)
(***************************************************************************)
MaxYears == 3

\* The years the per-year columns of an organization's tables name.
Years == {2018 + k : k \in 1 .. MaxYears}

Table(columns, rows) == [columns |-> columns, rows |-> rows]

MapCells(table, f(_)) ==
    Table(table.columns,
          [i \in DOMAIN table.rows |->
              [c \in Range(table.columns) |-> f(table.rows[i][c])]])

\* The texts pd.read_csv takes for a missing value (its default na_values).
na_values ==
    {"", "#N/A", "#N/A N/A", "#NA", "-1.#IND", "-1.#QNAN", "-NaN", "-nan", "1.#IND",
     "1.#QNAN", "<NA>", "N/A", "NA", "NULL", "NaN", "None", "n/a", "nan", "null"}

parse_cell(text) == IF text \in na_values THEN NaN ELSE text

\* pd.read_csv(path) of an existing file.
read_csv(table) == MapCells(table, parse_cell)

write_cell(val) == IF val \in {NaN, None} THEN "" ELSE val

\* DataFrame.to_csv(path, index=False): a missing value is written as the
\* empty text.
to_csv(frame) == MapCells(frame, write_cell)

\* os.path.join(folder, csv_subdir, filename)
path_join(folder, filename) == folder \o "/CSVs/" \o filename

exists(path) == files[path] # <<>>

BoolText(b) == IF b THEN "True" ELSE "False"

Reverse(s) == [i \in DOMAIN s |-> s[Len(s) + 1 - i]]

\* The texts that occur with surrounding whitespace in the tables, and
\* str.strip().
Pad(text) == " " \o text \o " "

PaddedTexts == {"", "NULL", "Tsinghua University"}

strip(text) ==
    IF \E t \in PaddedTexts : text = Pad(t)
    THEN CHOOSE t \in PaddedTexts : text = Pad(t)
    ELSE text

\* val.upper() == "NULL"
IsNullText(text) == text \in {"NULL", "null", "Null"}

(***************************************************************************)
(* step9_openalex_sorting.py                                               *)
(***************************************************************************)
main_dirs == <<"Anthropic", "Google", "OpenAI">>

authors_filename == "enriched_authors_metadata.csv"
institutions_filename == "enriched_institutions.csv"

\* Where the loop over the organizations goes after one whose file is
\* missing (`return` from the per-folder function, `continue`): to the next.
after_missing_stop(k) == Len(main_dirs) + 1

after_missing(k) == k + 1

id_col(year) == "affiliation_id_" \o ToString(year)
country_col(year) == "affiliation_country_" \o ToString(year)
name_col(year) == "affiliation_display_name_" \o ToString(year)

\* clean_text, lines 17-23 (no text of the tables holds an invisible
\* character): a value that is not a str is returned as it is.
clean_text(val) ==
    IF val = NaN THEN val
    ELSE IF IsNullText(strip(val)) \/ strip(val) = "" THEN None ELSE strip(val)

clean_dataframe(frame) == MapCells(frame, clean_text)

\* Line 43: institution id -> {display_name, country}.
inst_info(inst_df) ==
    [id \in {inst_df.rows[i]["id"] : i \in DOMAIN inst_df.rows} |->
        LET i == CHOOSE k \in DOMAIN inst_df.rows : inst_df.rows[k]["id"] = id
        IN [display_name |-> inst_df.rows[i]["display_name"],
            country      |-> inst_df.rows[i]["country"]]]

\* Lines 46-53: year -> column, for the columns a pattern matches.
id_cols(columns) == [y \in {z \in Years : id_col(z) \in Range(columns)} |-> id_col(y)]
country_cols(columns) ==
    [y \in {z \in Years : country_col(z) \in Range(columns)} |-> country_col(y)]
name_cols(columns) == [y \in {z \in Years : name_col(z) \in Range(columns)} |-> name_col(y)]

\* Line 55: sorted(..., reverse=True)
valid_years(columns) ==
    Reverse(SortedSeq(DOMAIN id_cols(columns) \cap DOMAIN country_cols(columns)
                          \cap DOMAIN name_cols(columns)))

analytics_columns ==
    <<"affiliation_data", "unique_affiliation_count", "all_usa", "some_usa", "all_china",
      "some_china", "unique_country_count", "all_countries", "Most Recent Affiliation",
      "Most Recent Affiliation Country">>

\* A drop that leaves the frame as it is.
drop_nothing(frame, names) == frame

\* Lines 65-67: author_df.drop(columns=[col]) for the analytics columns.
drop_columns(frame, names) ==
    LET kept == SelectSeq(frame.columns, LAMBDA c : c \notin names)
    IN Table(kept, [i \in DOMAIN frame.rows |-> [c \in Range(kept) |-> frame.rows[i][c]]])

\* Lines 75-77: the country of the institution whose id the row has.
mapped_country(x, info) ==
    IF x \notin {NaN, None} /\ x \in DOMAIN info THEN info[x].country ELSE None

\* Lines 70-77.
update_countries(frame, info) ==
    LET years == valid_years(frame.columns)
    IN Table(frame.columns,
             [i \in DOMAIN frame.rows |->
                 [c \in Range(frame.columns) |->
                     IF \E k \in DOMAIN years : c = country_col(years[k])
                     THEN LET y == CHOOSE z \in Range(years) : c = country_col(z)
                          IN mapped_country(frame.rows[i][id_col(y)], info)
                     ELSE frame.rows[i][c]]])

\* A null check that lets every value through.
is_any_value(val) == TRUE

\* Lines 91-98.
is_valid_value(val) ==
    IF val \in {NaN, None} THEN FALSE
    ELSE ~(IsNullText(strip(val)) \/ strip(val) = "")

\* Lines 85-105: the valid values of one kind of column, latest year first.
valid_values(row, years, col(_)) ==
    LET kept == SelectSeq(years, LAMBDA y : is_valid_value(row[col(y)]))
    IN [k \in DOMAIN kept |-> strip(row[col(kept[k])])]

\* The countries of the tables, in the order sorted() puts them.
CountryPool == <<"China", "United States">>

sorted_countries(unique_countries) ==
    SelectSeq(CountryPool, LAMBDA c : c \in unique_countries)

\* insert_analytics, lines 80-121.
insert_analytics(row, years) ==
    LET ids           == valid_values(row, years, id_col)
        countries     == valid_values(row, years, country_col)
        display_names == valid_values(row, years, name_col)
        unique_ids       == Range(ids)
        unique_countries == Range(countries)
    IN [c \in Range(analytics_columns) |->
           CASE c = "affiliation_data" ->
                    BoolText(Len(ids) > 0 \/ Len(countries) > 0 \/ Len(display_names) > 0)
             [] c = "unique_affiliation_count" -> ToString(Cardinality(unique_ids))
             [] c = "all_usa" ->
                    BoolText(Len(countries) > 0
                                 /\ \A k \in DOMAIN countries : countries[k] = "United States")
             [] c = "some_usa" ->
                    BoolText(\E k \in DOMAIN countries : countries[k] = "United States")
             [] c = "all_china" ->
                    BoolText(Len(countries) > 0
                                 /\ \A k \in DOMAIN countries : countries[k] = "China")
             [] c = "some_china" ->
                    BoolText(\E k \in DOMAIN countries : countries[k] = "China")
             [] c = "unique_country_count" -> ToString(Cardinality(unique_countries))
             [] c = "all_countries" ->
                    IF unique_countries # {}
                    THEN Join(", ", sorted_countries(unique_countries)) ELSE None
             [] c = "Most Recent Affiliation" ->
                    IF display_names # <<>> THEN display_names[1] ELSE None
             [] c = "Most Recent Affiliation Country" ->
                    IF countries # <<>> THEN countries[1] ELSE None]

\* Lines 126-128: the analytics columns are inserted after i10_index.
insert_after(columns, name, inserted) ==
    LET at == CHOOSE k \in DOMAIN columns : columns[k] = name
    IN SubSeq(columns, 1, at) \o inserted \o SubSeq(columns, at + 1, Len(columns))

\* Lines 58-128 on the cleaned frames.
enrich_frame(author_df, inst_df) ==
    LET dropped == drop_columns(author_df, Range(analytics_columns))
        updated == update_countries(dropped, inst_info(inst_df))
        years   == valid_years(author_df.columns)
        columns == insert_after(updated.columns, "i10_index", analytics_columns)
    IN Table(columns,
             [i \in DOMAIN updated.rows |->
                 LET analytics == insert_analytics(updated.rows[i], years)
                 IN [c \in Range(columns) |->
                        IF c \in Range(analytics_columns)
                        THEN analytics[c] ELSE updated.rows[i][c]]])

\* What process_folder needs in order not to raise: the institution columns
\* of line 43 and the i10_index column of line 126.
sorting_raises(author_df, inst_df) ==
    \/ ~({"id", "display_name", "country"} \subseteq Range(inst_df.columns))
    \/ "i10_index" \notin Range(author_df.columns)

\* process_folder, lines 28-132, for the folder the loop of line 135 is at.
ProcessFolder ==
    /\ stage = "sorting"
    /\ org <= Len(main_dirs)
    /\ LET author_path      == path_join(main_dirs[org], authors_filename)
           institution_path == path_join(main_dirs[org], institutions_filename)
       IN IF ~exists(author_path) \/ ~exists(institution_path)
          THEN /\ org' = after_missing(org)
               /\ UNCHANGED <<files, stage>>
          ELSE LET author_df == clean_dataframe(read_csv(files[author_path][1]))
                   inst_df   == clean_dataframe(read_csv(files[institution_path][1]))
               IN IF sorting_raises(author_df, inst_df)
                  THEN /\ stage' = "crashed"
                       /\ UNCHANGED <<files, org>>
                  ELSE /\ files' = [files EXCEPT
                                       ![author_path] =
                                           <<to_csv(enrich_frame(author_df, inst_df))>>]
                       /\ org' = org + 1
                       /\ UNCHANGED stage
    /\ UNCHANGED <<dfs, combined_df, notOrgVars>>

(***************************************************************************)
(* step10_careertrajectory.py                                              *)
(***************************************************************************)
output_filename == "author_career_trajectory.csv"

\* Lines 92-96: the columns country_year_pattern matches, in column order
\* (the items of the dict year -> column).
year_country_cols(columns) ==
    SelectSeq(columns, LAMBDA c : \E y \in Years : c = country_col(y))

year_of(col) == CHOOSE y \in Years : col = country_col(y)

\* Lines 19-26: (year, country) for the columns whose cell is not missing.
RECURSIVE country_sequence(_, _)
country_sequence(row, cols) ==
    IF cols = <<>> THEN <<>>
    ELSE (IF row[Head(cols)] # NaN
          THEN <<[year |-> year_of(Head(cols)), country |-> strip(row[Head(cols)])]>>
          ELSE <<>>)
             \o country_sequence(row, Tail(cols))

\* country_sequence.sort(), line 29: by year (a year occurs once).
sort_skipped(sequence) == sequence

sort(sequence) ==
    LET years == SortedSeq({sequence[k].year : k \in DOMAIN sequence})
    IN [i \in DOMAIN years |->
           sequence[CHOOSE k \in DOMAIN sequence : sequence[k].year = years[i]]]

\* Lines 32-37: consecutive duplicates are removed.
RECURSIVE trajectory_from(_, _)
trajectory_from(prev, sequence) ==
    IF sequence = <<>> THEN <<>>
    ELSE IF Head(sequence).country # prev
         THEN <<Head(sequence).country>>
                  \o trajectory_from(Head(sequence).country, Tail(sequence))
         ELSE trajectory_from(prev, Tail(sequence))

trajectory_of(sequence) == trajectory_from(None, sequence)

\* The simplified field without the one-country case.
simplified_multinational(trajectory) ==
    IF trajectory # <<>>
    THEN "Multinational Travel ---> " \o trajectory[Len(trajectory)]
    ELSE None

\* Lines 45-65.
simplified(trajectory) ==
    IF Cardinality(Range(trajectory)) = 1 /\ Len(trajectory) > 0
    THEN "Affiliated with one country"
    ELSE IF trajectory # <<>>
         THEN "Multinational Travel ---> " \o trajectory[Len(trajectory)]
         ELSE None

even_more_simplified(trajectory) ==
    IF Cardinality(Range(trajectory)) = 1 /\ Len(trajectory) > 0
    THEN "Started and Ended in " \o trajectory[1]
    ELSE IF trajectory # <<>>
         THEN LET first == trajectory[1]
                  last  == trajectory[Len(trajectory)]
              IN IF first = last
                 THEN IF Len(trajectory) > 1
                      THEN "Started and Ended in " \o first \o " (with travel in between)"
                      ELSE "Started and Ended in " \o first
                 ELSE "Started in " \o first \o ", Ended up in " \o last
         ELSE None

\* The columns of the Series process_author_row returns, lines 68-78.
trajectory_columns(cols) ==
    LET years == SortedSeq({year_of(cols[k]) : k \in DOMAIN cols})
    IN <<"Author", "OA_Profile", "Geographic Trajectory", "Years in the US",
         "Geographic Trajectory (simplified)",
         "Geographic Trajectory (even more simplified)">>
           \o [i \in DOMAIN years |-> ToString(years[i])]

\* process_author_row, lines 14-78.
process_author_row(row, cols) ==
    LET sequence   == sort(country_sequence(row, cols))
        trajectory == trajectory_of(sequence)
        years_in_us ==
            Cardinality({k \in DOMAIN sequence : sequence[k].country = "United States"})
    IN [c \in Range(trajectory_columns(cols)) |->
           CASE c = "Author" -> row["Author"]
             [] c = "OA_Profile" -> row["OA_Profile"]
             [] c = "Geographic Trajectory" ->
                    IF trajectory # <<>> THEN Join(" ---> ", trajectory) ELSE None
             [] c = "Years in the US" -> ToString(years_in_us)
             [] c = "Geographic Trajectory (simplified)" -> simplified(trajectory)
             [] c = "Geographic Trajectory (even more simplified)" ->
                    even_more_simplified(trajectory)
             [] OTHER ->
                    LET y == CHOOSE z \in Years : c = ToString(z)
                    IN IF row[country_col(y)] # NaN THEN strip(row[country_col(y)]) ELSE None]

\* Line 103: df.apply(..., axis=1); applied to a frame without rows, apply
\* returns the frame itself.
trajectory_df(frame, cols) ==
    IF frame.rows = <<>> THEN frame
    ELSE Table(trajectory_columns(cols),
               [i \in DOMAIN frame.rows |-> process_author_row(frame.rows[i], cols)])

\* Line 89: df[df['affiliation_data'] == True]
with_affiliation_data(frame) ==
    Table(frame.columns, SelectSeq(frame.rows, LAMBDA r : r["affiliation_data"] = "True"))

\* What process_file needs in order not to raise: the column of line 89 and,
\* when a row is processed, those of lines 71-72.
trajectory_raises(frame) ==
    \/ "affiliation_data" \notin Range(frame.columns)
    \/ /\ year_country_cols(frame.columns) # <<>>
       /\ with_affiliation_data(frame).rows # <<>>
       /\ ~({"Author", "OA_Profile"} \subseteq Range(frame.columns))

\* process_file, lines 80-107, for the folder the loop of line 110 is at.
ProcessFile ==
    /\ stage = "trajectory"
    /\ org <= Len(main_dirs)
    /\ LET author_path == path_join(main_dirs[org], authors_filename)
           output_path == path_join(main_dirs[org], output_filename)
       IN IF ~exists(author_path)
          THEN /\ org' = after_missing(org)
               /\ UNCHANGED <<files, stage>>
          ELSE LET frame == read_csv(files[author_path][1])
               IN IF trajectory_raises(frame)
                  THEN /\ stage' = "crashed"
                       /\ UNCHANGED <<files, org>>
                  ELSE LET selected == with_affiliation_data(frame)
                           cols     == year_country_cols(selected.columns)
                       IN /\ files' = IF cols = <<>> THEN files
                                      ELSE [files EXCEPT
                                               ![output_path] =
                                                   <<to_csv(trajectory_df(selected, cols))>>]
                          /\ org' = org + 1
                          /\ UNCHANGED stage
    /\ UNCHANGED <<dfs, combined_df, notOrgVars>>

(***************************************************************************)
(* step11_visualizations.py: loading                                       *)
(***************************************************************************)
ORG_DIRS == <<"Anthropic", "Google", "OpenAI">>

\* traj_df.columns.str.strip(), lines 43 and 45.
strip_columns(frame) ==
    Table([k \in DOMAIN frame.columns |-> strip(frame.columns[k])],
          [i \in DOMAIN frame.rows |->
              [c \in {strip(frame.columns[k]) : k \in DOMAIN frame.columns} |->
                  frame.rows[i][CHOOSE d \in Range(frame.columns) : strip(d) = c]]])

merged_columns == <<"No. Papers", "Most Recent Affiliation Country">>

\* pd.merge(left, right[['Author'] + merged_columns], on='Author', how='left'):
\* a left row is repeated once per right row with its Author, and kept once,
\* with missing values, when there is none.
RECURSIVE merge_rows(_, _)
merge_rows(left_rows, right_rows) ==
    IF left_rows = <<>> THEN <<>>
    ELSE LET row     == Head(left_rows)
             matches == SelectSeq(right_rows, LAMBDA r : r["Author"] = row["Author"])
             joined(r) == [c \in DOMAIN row \cup Range(merged_columns) |->
                              IF c \in DOMAIN row THEN row[c] ELSE r[c]]
             alone   == [c \in DOMAIN row \cup Range(merged_columns) |->
                              IF c \in DOMAIN row THEN row[c] ELSE NaN]
         IN (IF matches = <<>> THEN <<alone>>
             ELSE [k \in DOMAIN matches |-> joined(matches[k])])
                \o merge_rows(Tail(left_rows), right_rows)

merge(left, right) ==
    Table(left.columns \o merged_columns, merge_rows(left.rows, right.rows))

\* df[name] = value, for a new column.
with_column(frame, name, value(_)) ==
    Table(frame.columns \o <<name>>,
          [i \in DOMAIN frame.rows |->
              [c \in Range(frame.columns) \cup {name} |->
                  IF c = name THEN value(i) ELSE frame.rows[i][c]]])

\* Lines 52-58: the value is computed per row of meta_df and assigned by
\* index, so row i of df gets the value of row i of meta_df.
foreign_experience_years(meta_df, i) ==
    LET foreign_cols == SelectSeq(meta_df.columns,
                                  LAMBDA c : \E y \in Years : c = country_col(y))
    IN IF foreign_cols = <<>> THEN "0"
       ELSE IF i \notin DOMAIN meta_df.rows THEN NaN
            ELSE ToString(Cardinality(
                     {k \in DOMAIN foreign_cols :
                         meta_df.rows[i][foreign_cols[k]] \notin {NaN, "United States"}}))

\* Lines 47-60: df is appended to dfs at line 49 and again at line 60.
append_twice(list, frame) == list \o <<frame, frame>>

append_once(list, frame) == list \o <<frame>>

load_raises(traj_df, meta_df) ==
    \/ "Author" \notin Range(traj_df.columns)
    \/ ~(({"Author"} \cup Range(merged_columns)) \subseteq Range(meta_df.columns))

\* Lines 30-60, for the organization the loop is at.
LoadOrganization ==
    /\ stage = "visualizations"
    /\ org <= Len(ORG_DIRS)
    /\ LET trajectory_path == path_join(ORG_DIRS[org], output_filename)
           metadata_path   == path_join(ORG_DIRS[org], authors_filename)
       IN IF ~exists(trajectory_path) \/ ~exists(metadata_path)
          THEN /\ org' = after_missing(org)
               /\ UNCHANGED <<dfs, stage>>
          ELSE LET traj_df == strip_columns(read_csv(files[trajectory_path][1]))
                   meta_df == strip_columns(read_csv(files[metadata_path][1]))
               IN IF load_raises(traj_df, meta_df)
                  THEN /\ stage' = "crashed"
                       /\ UNCHANGED <<dfs, org>>
                  ELSE LET merged == with_column(merge(traj_df, meta_df), "Org",
                                                 LAMBDA i : ORG_DIRS[org])
                           frame  == with_column(merged, "Foreign Experience Years",
                                         LAMBDA i : foreign_experience_years(meta_df, i))
                       IN /\ dfs' = append_twice(dfs, frame)
                          /\ org' = org + 1
                          /\ UNCHANGED stage
    /\ UNCHANGED <<files, combined_df, notOrgVars>>

\* pd.concat(frames, ignore_index=True): the columns are those of all the
\* frames, in the order they first occur; a cell a frame lacks is NaN.
RECURSIVE concat_columns(_, _)
concat_columns(columns, frames) ==
    IF frames = <<>> THEN columns
    ELSE concat_columns(
             columns \o SelectSeq(Head(frames).columns, LAMBDA c : c \notin Range(columns)),
             Tail(frames))

RECURSIVE concat_rows(_, _)
concat_rows(columns, frames) ==
    IF frames = <<>> THEN <<>>
    ELSE [i \in DOMAIN Head(frames).rows |->
             [c \in Range(columns) |-> Get(Head(frames).rows[i], c, NaN)]]
            \o concat_rows(columns, Tail(frames))

concat(frames) ==
    LET columns == concat_columns(<<>>, frames)
    IN Table(columns, concat_rows(columns, frames))

\* Lines 62-65: without a loaded organization the script raises ValueError.
ConcatOrganizations ==
    /\ stage = "visualizations"
    /\ org > Len(ORG_DIRS)
    /\ IF dfs = <<>>
       THEN stage' = "crashed" /\ UNCHANGED combined_df
       ELSE stage' = "done" /\ combined_df' = <<concat(dfs)>>
    /\ UNCHANGED <<files, org, dfs, notOrgVars>>

(***************************************************************************)
(* step12_combineinstitutions.py                                           *)
(***************************************************************************)
companies == <<"OpenAI", "Anthropic", "Google">>

combined_output_path == "combined/mega_institutions.csv"

author_columns == <<"openai_authors", "anthropic_authors", "google_authors">>

\* company.lower() + "_authors" for the three companies of lines 27-32.
author_column(company) ==
    CASE company = "OpenAI"    -> "openai_authors"
      [] company = "Anthropic" -> "anthropic_authors"
      [] company = "Google"    -> "google_authors"

\* The integer a numeric cell holds.
MaxCount == 12

ToInt(text) == CHOOSE n \in 0 .. MaxCount : ToString(n) = text

\* load_and_tag_dataset, lines 19-36, on the frame read.
tag_dataset(frame, company) ==
    Table(frame.columns \o author_columns,
          [i \in DOMAIN frame.rows |->
              [c \in Range(frame.columns) \cup Range(author_columns) |->
                  IF c \in Range(author_columns)
                  THEN IF c = author_column(company)
                       THEN frame.rows[i]["author_count"] ELSE "0"
                  ELSE frame.rows[i][c]]])

\* df.empty
empty(frame) == frame.rows = <<>> \/ frame.columns = <<>>

\* Lines 41-45, for the company the loop is at: a company without a file
\* gives an empty frame, which is not appended.
LoadAndTagDataset ==
    /\ stage = "institutions"
    /\ org <= Len(companies)
    /\ LET file_path == path_join(companies[org], institutions_filename)
       IN IF ~exists(file_path)
          THEN /\ org' = after_missing(org)
               /\ UNCHANGED <<dfs, stage>>
          ELSE LET frame == read_csv(files[file_path][1])
               IN IF "author_count" \notin Range(frame.columns)
                  THEN /\ stage' = "crashed"
                       /\ UNCHANGED <<dfs, org>>
                  ELSE /\ dfs' = IF empty(tag_dataset(frame, companies[org])) THEN dfs
                                 ELSE append_once(dfs, tag_dataset(frame, companies[org]))
                       /\ org' = org + 1
                       /\ UNCHANGED stage
    /\ UNCHANGED <<files, combined_df, notOrgVars>>

\* The institution ids of the tables, in the order groupby sorts them.
InstitutionPool ==
    <<"https://openalex.org/I1", "https://openalex.org/I2", "https://openalex.org/I3">>

\* The first value in place of the sum.
first_cell(cells) == IF cells = <<>> THEN 0 ELSE ToInt(Head(cells))

RECURSIVE sum(_)
sum(cells) == IF cells = <<>> THEN 0 ELSE ToInt(Head(cells)) + sum(Tail(cells))

\* Lines 55-58: one row per id, in id order; an author column is summed,
\* any other column keeps the value of the group's first row.
groupby_id(frame) ==
    LET ids == SelectSeq(InstitutionPool,
                         LAMBDA id : \E i \in DOMAIN frame.rows : frame.rows[i]["id"] = id)
        group(id) == SelectSeq(frame.rows, LAMBDA r : r["id"] = id)
    IN Table(frame.columns,
             [k \in DOMAIN ids |->
                 [c \in Range(frame.columns) |->
                     IF c \in Range(author_columns)
                     THEN ToString(sum([i \in DOMAIN group(ids[k]) |-> group(ids[k])[i][c]]))
                     ELSE group(ids[k])[1][c]]])

\* combine_datasets, lines 47-60.
combine_datasets(all_dfs) ==
    IF all_dfs = <<>> THEN Table(<<>>, <<>>) ELSE groupby_id(concat(all_dfs))

\* combine_datasets lines 47-60 and main lines 64-77: an empty result is not
\* saved.
SaveCombinedInstitutions ==
    /\ stage = "institutions"
    /\ org > Len(companies)
    /\ combined_df' = <<combine_datasets(dfs)>>
    /\ files' = IF empty(combine_datasets(dfs)) THEN files
                ELSE [files EXCEPT ![combined_output_path] = <<to_csv(combine_datasets(dfs))>>]
    /\ stage' = "combined"
    /\ UNCHANGED <<org, dfs, notOrgVars>>

(***************************************************************************)
(* The files the per-organization stages start from                        *)
(***************************************************************************)
\* The institutions of the tables: id, display name, country as written in
\* enriched_institutions.csv (one padded name, one institution whose country
\* is not known).
Institution(id) ==
    CASE id = InstitutionPool[1] ->
             [display_name |-> "OpenAI", country |-> "United States"]
      [] id = InstitutionPool[2] ->
             [display_name |-> Pad("Tsinghua University"), country |-> "China"]
      [] id = InstitutionPool[3] ->
             [display_name |-> "Mila", country |-> "NULL"]

institution_file_columns ==
    <<"id", "author_count", "display_name", "type", "country", "works_count">>

\* The institutions listed in the enriched_institutions.csv of an
\* organization, in file order.
InstitutionsOf(folder) ==
    CASE folder = "Anthropic" -> <<1, 2, 3>>
      [] folder = "Google"    -> <<2, 1>>
      [] folder = "OpenAI"    -> <<3, 1, 2>>

FolderNumber(folder) == CHOOSE k \in DOMAIN main_dirs : main_dirs[k] = folder

InstitutionsFile(folder) ==
    Table(institution_file_columns,
          [i \in DOMAIN InstitutionsOf(folder) |->
              LET id == InstitutionPool[InstitutionsOf(folder)[i]]
              IN [c \in Range(institution_file_columns) |->
                     CASE c = "id"           -> id
                       [] c = "author_count" -> ToString(FolderNumber(folder) + i)
                       [] c = "display_name" -> Institution(id).display_name
                       [] c = "type"         -> "company"
                       [] c = "country"      -> Institution(id).country
                       [] c = "works_count"  -> ToString(InstitutionsOf(folder)[i])]])

\* The affiliation of an author in one year: an institution id, or "" for
\* none; an author's affiliations are one such choice per year.
AffiliationChoices == Range(InstitutionPool) \cup {""}

AffiliationPatterns == [Years -> AffiliationChoices]

\* The columns of an organization's enriched_authors_metadata.csv as step9
\* expects it: the per-year columns, latest year first.
authors_file_columns ==
    LET years == Reverse(SortedSeq(Years))
    IN <<"Author", "No. Papers", "OA_Profile", "i10_index">>
           \o [j \in 1 .. 3 * Len(years) |->
                  LET y == years[((j - 1) \div 3) + 1]
                  IN CASE (j - 1) % 3 = 0 -> name_col(y)
                       [] (j - 1) % 3 = 1 -> id_col(y)
                       [] OTHER           -> country_col(y)]

AuthorsFileRow(author, profile, pattern) ==
    [c \in Range(authors_file_columns) |->
        CASE c = "Author"     -> author
          [] c = "No. Papers" -> "1"
          [] c = "OA_Profile" -> profile
          [] c = "i10_index"  -> "3"
          [] OTHER ->
                 LET y  == CHOOSE z \in Years : c \in {name_col(z), id_col(z), country_col(z)}
                     id == pattern[y]
                 IN IF id = "" THEN ""
                    ELSE IF c = id_col(y) THEN id
                         ELSE IF c = name_col(y) THEN Institution(id).display_name
                              ELSE "NULL"]

AuthorOf(folder) ==
    CASE folder = "Anthropic" -> "Ann Lee"
      [] folder = "Google"    -> "Bo Kim"
      [] folder = "OpenAI"    -> "Cy Diaz"

\* The rows of an organization's authors file: the author alone, the author
\* and a namesake, or an author without any affiliation followed by the
\* author.
Rosters == {"alone", "namesake", "after unaffiliated"}

AuthorsFile(folder, pattern, roster) ==
    LET profile(n) == "https://openalex.org/A" \o ToString(10 * FolderNumber(folder) + n)
        author     == AuthorsFileRow(AuthorOf(folder), profile(1), pattern)
        namesake   == AuthorsFileRow(AuthorOf(folder), profile(2),
                                     [y \in Years |-> InstitutionPool[1]])
        unaffiliated == AuthorsFileRow("Dee Roe", profile(3), [y \in Years |-> ""])
    IN Table(authors_file_columns,
             CASE roster = "alone"    -> <<author>>
               [] roster = "namesake" -> <<author, namesake>>
               [] roster = "after unaffiliated" -> <<unaffiliated, author>>)

\* The text DataFrame.to_csv writes for a cell of step2's enriched frame
\* (step2 line 162): numbers in decimal, the profile URL, '' for NaN.
enriched_cell_text(column, value) ==
    IF column \in {"No. Papers", "works_count", "cited_by_count", "2yr_mean_citedness",
                   "h_index", "i10_index"}
    THEN ToString(value)
    ELSE IF column = "OA_Profile" THEN Join("/", value)
         ELSE write_cell(value)

\* enriched_authors_metadata.csv as step2 writes it for an author whose
\* profile is `author_data`.
ProfileStageFile(author_data) ==
    LET years == DOMAIN process_affiliations(Get(author_data, "affiliations", <<>>)).by_year
        frame == result_df(<<author_info(RosterRow(1), author_data)>>, years)
    IN Table(frame.columns,
             [i \in DOMAIN frame.rows |->
                 [c \in Range(frame.columns) |-> enriched_cell_text(c, frame.rows[i][c])]])

Paths ==
    {path_join(main_dirs[k], f) :
        k \in DOMAIN main_dirs, f \in {authors_filename, institutions_filename, output_filename}}
        \cup {combined_output_path}

\* The files on disk: every organization but the `missing` ones has its
\* `kind` file; no stage has written its output yet.
Disk(authors, missing, kind) ==
    [p \in Paths |->
        IF \E k \in DOMAIN main_dirs :
               /\ p = path_join(main_dirs[k], authors_filename)
               /\ ~(kind = authors_filename /\ main_dirs[k] \in missing)
        THEN <<authors[CHOOSE k \in DOMAIN main_dirs :
                           p = path_join(main_dirs[k], authors_filename)]>>
        ELSE IF \E k \in DOMAIN main_dirs :
                    /\ p = path_join(main_dirs[k], institutions_filename)
                    /\ ~(kind = institutions_filename /\ main_dirs[k] \in missing)
             THEN <<InstitutionsFile(main_dirs[CHOOSE k \in DOMAIN main_dirs :
                                         p = path_join(main_dirs[k], institutions_filename)])>>
             ELSE <<>>]

\* The authors files of the organizations: in the form step9 expects, or as
\* the profile stage writes them when the stages are run in pipeline order.
AuthorsFiles ==
    {[k \in DOMAIN main_dirs |-> AuthorsFile(main_dirs[k], pattern, roster)] :
        pattern \in AffiliationPatterns, roster \in Rosters}
        \cup {[k \in DOMAIN main_dirs |-> ProfileStageFile(author_data)] :
                 author_data \in AuthorJsons}

DefaultAuthorsFiles ==
    [k \in DOMAIN main_dirs |->
        AuthorsFile(main_dirs[k], [y \in Years |-> InstitutionPool[1]], "alone")]

OrgIdle ==
    /\ files = <<>>
    /\ stage = "idle"
    /\ org = 0
    /\ dfs = <<>>
    /\ combined_df = <<>>
    /\ sorted_files = <<>>
    /\ mega_retention = <<>>

\* step9 is started on the files of the organizations, or step12 is.
OrgInit ==
    /\ stage \in {"sorting", "institutions"}
    /\ \E authors \in (IF stage = "sorting" THEN AuthorsFiles ELSE {DefaultAuthorsFiles}),
          missing \in SUBSET Range(main_dirs),
          kind \in {authors_filename, institutions_filename} :
          /\ (missing = {} => kind = authors_filename)
          /\ files = Disk(authors, missing, kind)
    /\ org = 1
    /\ dfs = <<>>
    /\ combined_df = <<>>
    /\ sorted_files = <<>>
    /\ mega_retention = <<>>

(***************************************************************************)
(* step9 run a second time on the files it wrote                           *)
(***************************************************************************)
\* step9 has gone through its folders and is started again (line 135) on
\* the files it left.
RunSortingAgain ==
    /\ stage = "sorting"
    /\ org > Len(main_dirs)
    /\ sorted_files = <<>>
    /\ sorted_files' = <<files>>
    /\ org' = 1
    /\ UNCHANGED <<files, stage, dfs, combined_df, mega_retention, notReportVars>>

(***************************************************************************)
(* step11_visualizations.py: the retention table                           *)
(***************************************************************************)
\* str.endswith(suffix)
endswith(text, suffix) ==
    /\ Len(text) >= Len(suffix)
    /\ SubSeq(text, Len(text) - Len(suffix) + 1, Len(text)) = suffix

\* Series.fillna(value)
fillna(val, value) == IF val \in {NaN, None} THEN value ELSE val

\* combined_df[combined_df['Org'] == org], and combined_df itself for 'All'.
rows_of_org(frame, name) ==
    IF name = "All" THEN frame
    ELSE Table(frame.columns, SelectSeq(frame.rows, LAMBDA r : r["Org"] = name))

\* Series.mean() of booleans or numbers, kept as the sum and the count of
\* the values that are not missing.
mean(cells) ==
    LET present == SelectSeq(cells, LAMBDA v : v \notin {NaN, None})
    IN [sum |-> sum(present), count |-> Len(present)]

\* calculate_retention, lines 148-149.
calculate_retention(frame) ==
    mean([i \in DOMAIN frame.rows |->
             IF endswith(fillna(frame.rows[i]["Geographic Trajectory (even more simplified)"],
                                ""),
                         "United States")
             THEN "1" ELSE "0"])

\* Lines 80-128, the plots per organization: range(1, max + 2) of line 87
\* raises TypeError for an organization without rows (the max of an empty
\* column is NaN), min() of line 115 raises ValueError without year columns.
plots_raise(frame) ==
    \/ \E k \in DOMAIN ORG_DIRS : rows_of_org(frame, ORG_DIRS[k]).rows = <<>>
    \/ ~\E y \in Years : ToString(y) \in Range(frame.columns)

\* Lines 151-165: the record appended to mega_retention for an organization.
retention_record(frame, name) ==
    LET part == rows_of_org(frame, name)
    IN [Org            |-> name,
        retention      |-> calculate_retention(part),
        unique_authors |-> Cardinality({part.rows[i]["Author"] : i \in DOMAIN part.rows}),
        foreign_mean   |-> mean([i \in DOMAIN part.rows |->
                                    part.rows[i]["Foreign Experience Years"]])]

\* Lines 80-165 on the combined table.
BuildRetentionTable ==
    /\ stage = "done"
    /\ IF plots_raise(combined_df[1])
       THEN /\ stage' = "crashed"
            /\ UNCHANGED mega_retention
       ELSE /\ stage' = "reported"
            /\ mega_retention' =
                   [k \in 1 .. (Len(ORG_DIRS) + 1) |->
                       retention_record(combined_df[1],
                                        (ORG_DIRS \o <<"All">>)[k])]
    /\ UNCHANGED <<files, org, dfs, combined_df, sorted_files, notReportVars>>

\* step9 has gone through its folders; step10 is run next (line 110).
RunCareerTrajectory ==
    /\ stage = "sorting"
    /\ org > Len(main_dirs)
    /\ stage' = "trajectory"
    /\ org' = 1
    /\ UNCHANGED <<files, dfs, combined_df, notOrgVars>>

\* step10 has gone through its folders; step11 is run next (line 29).
RunVisualizations ==
    /\ stage = "trajectory"
    /\ org > Len(main_dirs)
    /\ stage' = "visualizations"
    /\ org' = 1
    /\ UNCHANGED <<files, dfs, combined_df, notOrgVars>>

OrgNext ==
    \/ ProcessFolder
    \/ RunCareerTrajectory
    \/ ProcessFile
    \/ RunVisualizations
    \/ LoadOrganization
    \/ ConcatOrganizations
    \/ LoadAndTagDataset
    \/ SaveCombinedInstitutions
    \/ RunSortingAgain
    \/ BuildRetentionTable

(***************************************************************************)
(* step8_openalex_author_affiliations.py, and step9 reading what it wrote  *)
(***************************************************************************)
\* The affiliation of an author in one year in authors_affiliations.csv: an
\* institution of enriched_institutions.csv, one that is not in it, or none.
UnlistedInstitution == "https://openalex.org/I9"

AffiliationCells == Range(InstitutionPool) \cup {UnlistedInstitution, ""}

affiliations_file_columns ==
    LET years == Reverse(SortedSeq(Years))
    IN <<"Author", "OA_ID", "unique_affiliation_count">>
           \o [j \in 1 .. 2 * Len(years) |->
                  LET y == years[((j - 1) \div 2) + 1]
                  IN IF (j - 1) % 2 = 0 THEN AffiliationColumn(y) ELSE IdColumn(y)]

\* authors_affiliations.csv with one author.
AffiliationsFile(pattern) ==
    Table(affiliations_file_columns,
          <<[c \in Range(affiliations_file_columns) |->
                CASE c = "Author" -> "Ann Lee"
                  [] c = "OA_ID"  -> "A1"
                  [] c = "unique_affiliation_count" ->
                         ToString(Cardinality(Range(pattern) \ {""}))
                  [] OTHER ->
                         LET y == CHOOSE z \in Years : c \in {AffiliationColumn(z), IdColumn(z)}
                         IN IF pattern[y] = "" THEN ""
                            ELSE IF c = IdColumn(y) THEN pattern[y]
                                 ELSE IF pattern[y] = UnlistedInstitution THEN "Elsewhere"
                                      ELSE Institution(pattern[y]).display_name]>>)

\* load_data, lines 15-23: institution id -> country.
institution_country_map ==
    LET institutions_df == read_csv(InstitutionsFile("Anthropic"))
    IN [id \in {institutions_df.rows[i]["id"] : i \in DOMAIN institutions_df.rows} |->
           institutions_df.rows[
               CHOOSE i \in DOMAIN institutions_df.rows :
                   institutions_df.rows[i]["id"] = id]["country"]]

\* get_institution_country, lines 25-27.
get_institution_country(institution_id) ==
    Get(institution_country_map, institution_id, "")

\* Lines 51-54: the years of the affiliation-<year> columns, latest first.
affiliation_years(columns) ==
    Reverse(SortedSeq({y \in Years : AffiliationColumn(y) \in Range(columns)}))

\* get_unique_countries, lines 29-42: NaN, the country read for an
\* institution whose country cell is empty, is not a false value and is
\* added.
get_unique_countries(row, columns) ==
    {get_institution_country(row[IdColumn(y)]) :
        y \in {z \in Range(affiliation_years(columns)) : row[IdColumn(z)] \notin {NaN, ""}}}
        \ {""}

enhanced_columns(columns) ==
    LET years == affiliation_years(columns)
    IN <<"Author", "OA_ID", "unique_affiliation_count", "all_china", "some_china",
         "some_usa", "all_countries">>
           \o [j \in 1 .. 3 * Len(years) |->
                  LET y == years[((j - 1) \div 3) + 1]
                  IN CASE (j - 1) % 3 = 0 -> name_col(y)
                       [] (j - 1) % 3 = 1 -> id_col(y)
                       [] OTHER           -> country_col(y)]

\* Lines 66-86: the dict built for one author.
author_data(row, columns) ==
    LET countries == get_unique_countries(row, columns)
    IN [c \in Range(enhanced_columns(columns)) |->
           CASE c = "Author" -> row["Author"]
             [] c = "OA_ID"  -> row["OA_ID"]
             [] c = "unique_affiliation_count" -> row["unique_affiliation_count"]
             [] c = "all_china" ->
                    BoolText(countries # {} /\ \A x \in countries : x = "China")
             [] c = "some_china" -> BoolText("China" \in countries)
             [] c = "some_usa"   -> BoolText("United States" \in countries)
             [] c = "all_countries" ->
                    IF countries # {} THEN Join("; ", sorted_countries(countries)) ELSE ""
             [] OTHER ->
                    LET y == CHOOSE z \in Years : c \in {name_col(z), id_col(z), country_col(z)}
                    IN IF c = name_col(y) THEN row[AffiliationColumn(y)]
                       ELSE IF c = id_col(y) THEN row[IdColumn(y)]
                            ELSE IF row[IdColumn(y)] # NaN
                                 THEN get_institution_country(row[IdColumn(y)])
                                 ELSE ""]

\* analyze_affiliations, lines 44-93.
analyze_affiliations(frame) ==
    Table(enhanced_columns(frame.columns),
          [i \in DOMAIN frame.rows |-> author_data(frame.rows[i], frame.columns)])

\* '; '.join(sorted(countries)), line 73, raises TypeError when a country is
\* NaN.
analyze_raises(frame) ==
    \E i \in DOMAIN frame.rows : NaN \in get_unique_countries(frame.rows[i], frame.columns)

CsvIdle ==
    /\ author_df8 = <<>>
    /\ result_df8 = <<>>
    /\ csv_text = <<>>
    /\ author_df9 = <<>>
    /\ r_pc = "idle"

\* load_data, lines 12-17.
CsvInit ==
    /\ author_df8 \in {<<read_csv(AffiliationsFile(pattern))>> :
                          pattern \in [Years -> AffiliationCells]}
    /\ result_df8 = <<>>
    /\ csv_text = <<>>
    /\ author_df9 = <<>>
    /\ r_pc = "loaded"

\* main, line 131.
AnalyzeAffiliations ==
    /\ r_pc = "loaded"
    /\ IF analyze_raises(author_df8[1])
       THEN r_pc' = "crashed" /\ UNCHANGED result_df8
       ELSE r_pc' = "analyzed" /\ result_df8' = <<analyze_affiliations(author_df8[1])>>
    /\ UNCHANGED <<author_df8, csv_text, author_df9, notCsvVars>>

\* main, line 135: result_df.to_csv(output_file, index=False)
SaveEnhancedAffiliations ==
    /\ r_pc = "analyzed"
    /\ csv_text' = <<to_csv(result_df8[1])>>
    /\ r_pc' = "written"
    /\ UNCHANGED <<author_df8, result_df8, author_df9, notCsvVars>>

\* step9 line 39: pd.read_csv(author_path) of the table step8 wrote.
ReadEnhancedAffiliations ==
    /\ r_pc = "written"
    /\ author_df9' = <<read_csv(csv_text[1])>>
    /\ r_pc' = "read"
    /\ UNCHANGED <<author_df8, result_df8, csv_text, notCsvVars>>

CsvNext ==
    \/ AnalyzeAffiliations
    \/ SaveEnhancedAffiliations
    \/ ReadEnhancedAffiliations

(***************************************************************************)
(* step5_openalex_institutions_scraper.py                                  *)
(***************************************************************************)
\* The institution an author of enriched_authors_metadata.csv is affiliated
\* with in one year, "" for none; the file has one or two authors.
SummaryChoices == {InstitutionPool[1], InstitutionPool[2], ""}

SummaryAuthorCounts == {1, 2}

\* The author object of the API for an author with these yearly
\* affiliations: one 'affiliations' entry per institution, with its years.
ProfileJson(pattern) ==
    LET ids == SelectSeq(InstitutionPool,
                         LAMBDA id : \E y \in Years : pattern[y] = id)
    IN [k \in {"display_name", "affiliations"} |->
           CASE k = "display_name" -> "A. Lee"
             [] k = "affiliations" ->
                    [i \in DOMAIN ids |->
                        Affiliation(Institution(ids[i]).display_name, ids[i],
                                    Reverse(SortedSeq({y \in Years : pattern[y] = ids[i]})))]]

\* enriched_authors_metadata.csv as step2 writes it (lines 67-162) for the
\* roster rows 1 .. Len(patterns).
EnrichedAuthorsFile(patterns) ==
    LET dicts == [i \in DOMAIN patterns |->
                     author_info(RosterRow(i), ProfileJson(patterns[i]))]
        years == {y \in Years : \E i \in DOMAIN patterns : patterns[i][y] # ""}
        frame == result_df(dicts, years)
    IN Table(frame.columns,
             [i \in DOMAIN frame.rows |->
                 [c \in Range(frame.columns) |-> enriched_cell_text(c, frame.rows[i][c])]])

\* str.startswith(prefix)
startswith(text, prefix) ==
    /\ Len(text) >= Len(prefix)
    /\ SubSeq(text, 1, Len(prefix)) = prefix

\* Lines 19-20 and 57-58.
id_columns(columns) == SelectSeq(columns, LAMBDA c : startswith(c, "ID-"))

affiliation_columns(columns) == SelectSeq(columns, LAMBDA c : startswith(c, "affiliation-"))

\* Line 61: the years of the affiliation columns, latest first.
spreadsheet_years(columns) ==
    Reverse(SortedSeq({y \in Years : AffiliationColumn(y) \in Range(columns)}))

base_cols == <<"Author", "OA_ID">>

\* Lines 65-67.
year_cols(years) ==
    [j \in 1 .. 2 * Len(years) |->
        IF j % 2 = 1 THEN AffiliationColumn(years[(j + 1) \div 2])
        ELSE IdColumn(years[j \div 2])]

\* df[columns]
select_columns(frame, columns) ==
    Table(columns,
          [i \in DOMAIN frame.rows |-> [c \in Range(columns) |-> frame.rows[i][c]]])

\* Lines 9 and 36: the ids of a row that are neither missing nor empty.
unique_ids(row, columns) == {row[c] : c \in Range(columns)} \ {NaN, ""}

\* count_unique_affiliations, lines 4-10.
count_unique_affiliations(row, columns) ==
    Cardinality(unique_ids(row, id_columns(columns)))

\* Lines 75-76: the count is inserted as the third column.
with_affiliation_count(frame) ==
    Table(SubSeq(frame.columns, 1, 2) \o <<"unique_affiliation_count">>
              \o SubSeq(frame.columns, 3, Len(frame.columns)),
          [i \in DOMAIN frame.rows |->
              [c \in Range(frame.columns) \cup {"unique_affiliation_count"} |->
                  IF c = "unique_affiliation_count"
                  THEN ToString(count_unique_affiliations(frame.rows[i], frame.columns))
                  ELSE frame.rows[i][c]]])

\* Line 70 raises KeyError without the base columns; line 88 prints
\* years[-1] and raises IndexError when no column is an affiliation column.
spreadsheet_raises(frame) ==
    \/ ~(Range(base_cols) \subseteq Range(frame.columns))
    \/ spreadsheet_years(frame.columns) = <<>>

\* Lines 24-28: the (id, display_name) pairs of one pair of columns, without
\* the rows where either is missing or the id is empty.
institution_pairs(frame, id_col5, aff_col) ==
    LET kept == SelectSeq(frame.rows,
                          LAMBDA r : r[id_col5] \notin {NaN, ""} /\ r[aff_col] # NaN)
    IN [i \in DOMAIN kept |-> [id |-> kept[i][id_col5], display_name |-> kept[i][aff_col]]]

\* Lines 23-31: zip(id_cols, affiliation_cols), concatenated.
RECURSIVE all_institutions(_, _, _)
all_institutions(frame, ids, affiliations) ==
    IF ids = <<>> \/ affiliations = <<>> THEN <<>>
    ELSE institution_pairs(frame, Head(ids), Head(affiliations))
             \o all_institutions(frame, Tail(ids), Tail(affiliations))

\* How often a row counts for an institution that occurs in several of its
\* year columns: once per column.
times_counted_per_year(row, columns, id) ==
    Cardinality({c \in Range(columns) : row[c] = id})

\* Lines 36-38: a row adds one to the count of each of its unique ids.
times_counted(row, columns, id) == IF id \in unique_ids(row, columns) THEN 1 ELSE 0

RECURSIVE author_counts(_, _, _)
author_counts(rows, columns, id) ==
    IF rows = <<>> THEN 0
    ELSE times_counted(Head(rows), columns, id) + author_counts(Tail(rows), columns, id)

\* drop_duplicates(subset='id'), line 42: the first row of each id.
RECURSIVE drop_duplicates(_, _)
drop_duplicates(seen, pairs) ==
    IF pairs = <<>> THEN <<>>
    ELSE IF Head(pairs).id \in seen THEN drop_duplicates(seen, Tail(pairs))
         ELSE <<Head(pairs)>> \o drop_duplicates(seen \cup {Head(pairs).id}, Tail(pairs))

\* sort_values('author_count', ascending=False), line 44: the orders the
\* sort may leave the rows in (rows of equal count in any order).
sort_values(rows) ==
    {[k \in DOMAIN rows |-> rows[p[k]]] :
        p \in {q \in Permutations(DOMAIN rows) :
                  \A i, j \in DOMAIN rows :
                      i < j => ToInt(rows[q[i]]["author_count"])
                                   >= ToInt(rows[q[j]]["author_count"])}}

institutions_columns == <<"id", "display_name", "author_count">>

\* create_all_institutions_summary, lines 12-47: the tables it may return.
create_all_institutions_summary(frame) ==
    LET ids   == id_columns(frame.columns)
        pairs == drop_duplicates({}, all_institutions(frame, ids,
                                                       affiliation_columns(frame.columns)))
        rows  == [i \in DOMAIN pairs |->
                     [c \in Range(institutions_columns) |->
                         IF c = "author_count"
                         THEN ToString(author_counts(frame.rows, ids, pairs[i].id))
                         ELSE pairs[i][c]]]
    IN {Table(institutions_columns, sorted) : sorted \in sort_values(rows)}

SummaryIdle ==
    /\ enriched_file = <<>>
    /\ affiliations_df = <<>>
    /\ summary_df = <<>>
    /\ summary_files = <<>>
    /\ u_pc = "idle"

\* main, lines 107-116: the script is started on the file step2 wrote.
SummaryInit ==
    /\ enriched_file \in
           {<<EnrichedAuthorsFile(patterns)>> :
               patterns \in UNION {[1 .. n -> [Years -> SummaryChoices]] :
                                      n \in SummaryAuthorCounts}}
    /\ affiliations_df = <<>>
    /\ summary_df = <<>>
    /\ summary_files = <<>>
    /\ u_pc = "start"

\* create_affiliations_spreadsheet, lines 53-88.
CreateAffiliationsSpreadsheet ==
    /\ u_pc = "start"
    /\ LET frame == read_csv(enriched_file[1])
       IN IF spreadsheet_raises(frame)
          THEN /\ u_pc' = "crashed"
               /\ UNCHANGED affiliations_df
          ELSE /\ affiliations_df' =
                      <<with_affiliation_count(
                            select_columns(frame,
                                base_cols \o year_cols(spreadsheet_years(frame.columns))))>>
               /\ u_pc' = "spreadsheet"
    /\ UNCHANGED <<enriched_file, summary_df, summary_files, notSummaryVars>>

\* create_affiliations_spreadsheet, line 91.
CreateAllInstitutionsSummary ==
    /\ u_pc = "spreadsheet"
    /\ \E table \in create_all_institutions_summary(affiliations_df[1]) :
          summary_df' = <<table>>
    /\ u_pc' = "summary"
    /\ UNCHANGED <<enriched_file, affiliations_df, summary_files, notSummaryVars>>

\* create_affiliations_spreadsheet, lines 93-105.
SaveSpreadsheets ==
    /\ u_pc = "summary"
    /\ summary_files' = [authors_affiliations |-> to_csv(affiliations_df[1]),
                         all_institutions     |-> to_csv(summary_df[1])]
    /\ u_pc' = "done"
    /\ UNCHANGED <<enriched_file, affiliations_df, summary_df, notSummaryVars>>

SummaryNext ==
    \/ CreateAffiliationsSpreadsheet
    \/ CreateAllInstitutionsSummary
    \/ SaveSpreadsheets

(***************************************************************************)
(* step1.1_filternames.py                                                  *)
(***************************************************************************)
\* The characters of a text, each as a text of length one.
Chars(text) == [i \in 1 .. Len(text) |-> SubSeq(text, i, i)]

\* The characters \s matches and str.strip() removes.
is_space(ch) == ch \in {" ", "\t"}

UpperCase == "ABCDEFGHIJKLMNOPQRSTUVWXYZ"

LowerCase == "abcdefghijklmnopqrstuvwxyz"

\* str.lower()
lower(text) ==
    Join("", [i \in 1 .. Len(text) |->
                 LET ch == SubSeq(text, i, i)
                 IN IF \E k \in 1 .. Len(UpperCase) : SubSeq(UpperCase, k, k) = ch
                    THEN LET k == CHOOSE k \in 1 .. Len(UpperCase) :
                                      SubSeq(UpperCase, k, k) = ch
                         IN SubSeq(LowerCase, k, k)
                    ELSE ch])

\* str.strip() of any text.
RECURSIVE str_strip(_)
str_strip(text) ==
    IF text = "" THEN ""
    ELSE IF is_space(SubSeq(text, 1, 1)) THEN str_strip(SubSeq(text, 2, Len(text)))
    ELSE IF is_space(SubSeq(text, Len(text), Len(text)))
         THEN str_strip(SubSeq(text, 1, Len(text) - 1))
    ELSE text

\* str.replace(".", "")
remove_periods(text) == Join("", SelectSeq(Chars(text), LAMBDA ch : ch # "."))

\* re.sub(r"\s+", " ", s): every run of whitespace becomes one space.
collapse_whitespace(text) ==
    Join("", [i \in 1 .. Len(text) |->
                 IF ~is_space(SubSeq(text, i, i)) THEN SubSeq(text, i, i)
                 ELSE IF i > 1 /\ is_space(SubSeq(text, i - 1, i - 1)) THEN ""
                 ELSE " "])

\* normalize, lines 20-25.
normalize(s) == collapse_whitespace(remove_periods(lower(str_strip(s))))

\* re.split(pattern, s) for a pattern matching one character of a set: the
\* texts between the separators, empty ones included.
RECURSIVE re_split(_, _)
re_split(separators, text) ==
    IF \E i \in 1 .. Len(text) : SubSeq(text, i, i) \in separators
    THEN LET i == CHOOSE i \in 1 .. Len(text) :
                      /\ SubSeq(text, i, i) \in separators
                      /\ \A j \in 1 .. i - 1 : SubSeq(text, j, j) \notin separators
         IN <<SubSeq(text, 1, i - 1)>>
                \o re_split(separators, SubSeq(text, i + 1, Len(text)))
    ELSE <<text>>

\* str.split(): the words between runs of whitespace.
split(text) == SelectSeq(re_split({" ", "\t"}, text), LAMBDA part : part # "")

\* first_last_to_last_first, lines 27-43.
first_last_to_last_first(name) ==
    LET parts == split(str_strip(name))
    IN IF Len(parts) >= 2
       THEN LET first  == parts[1]
                last   == parts[Len(parts)]
                middle == IF Len(parts) > 2
                          THEN Join(" ", SubSeq(parts, 2, Len(parts) - 1)) ELSE ""
                forms  == <<last \o ", " \o first>>
                              \o (IF middle # ""
                                  THEN <<last \o ", " \o first \o " " \o middle>>
                                  ELSE <<>>)
            IN {normalize(forms[i]) : i \in DOMAIN forms}
       ELSE {normalize(name)}

\* Lines 9-18.
target_names ==
    <<"Angang Du", "Chenzhuang Du", "Dehao Zhang", "Enming Yuan", "Enzhe Lu",
      "Flood Sung", "Guokun Lai", "Hao Ding", "Hao Hu", "Hao Zhang", "Haotian Yao",
      "Hongcheng Gao", "Huabin Zheng", "Jianlin Su", "Jianzhou Wang", "Jingyuan Liu",
      "Junjie Yan", "Kimi Team", "Longhui Yu", "Mengnan Dong", "Shaowei Liu",
      "Weiran He", "Weixiao Huang", "Weixin Xu", "Xingzhe Wu", "Xinxing Zu",
      "Xinyu Zhou", "Yangyang Hu", "Yanru Chen", "Yejie Wang", "Yibo Liu",
      "Yiping Bao", "Yulun Du", "Yuxin Wu", "Yuzhi Wang", "Zaida Zhou", "Zhaowei Li",
      "Zheng Zhang", "Zhilin Yang", "Zhiqi Huang", "Zihao Huang", "Zongyu Lin">>

\* Lines 46-51.
target_raw_forms ==
    UNION {first_last_to_last_first(target_names[i]) \cup {normalize(target_names[i])} :
              i \in DOMAIN target_names}

raw_col == "Raw Author Name"

\* split_authors, lines 59-72.
split_authors(cell) ==
    IF cell = NaN THEN <<>>
    ELSE LET parts == IF \E i \in 1 .. Len(cell) : SubSeq(cell, i, i) \in {";", "|"}
                      THEN re_split({";", "|"}, cell)
                      ELSE <<cell>>
             kept  == SelectSeq(parts, LAMBDA p : str_strip(p) # "")
         IN [i \in DOMAIN kept |-> str_strip(kept[i])]

\* row_matches, lines 74-79.
row_matches(raw_cell) ==
    \E author \in Range(split_authors(raw_cell)) : normalize(author) \in target_raw_forms

\* The columns step1 writes to a paper's metadata file.
paper_columns ==
    <<"Author Position", "Author ID", "Author Name", "ORCID", "Is Corresponding",
      "Raw Author Name", "Affiliations">>

\* The 'Raw Author Name' cells of the files the filter is run on.
RawNames ==
    {"Du, Angang", "Smith, John", "Smith, John; Du, Angang", "Smith, John|LAI, Guokun",
     "Yang, Zhilin, Smith, John", " Zhilin \t Yang.", "", "Kimi Team"}

MaxPasses == 3

\* paper1_metadata.csv with these 'Raw Author Name' cells.
PaperFile(names) ==
    Table(paper_columns,
          [i \in DOMAIN names |->
              [c \in Range(paper_columns) |->
                  CASE c = "Author Position"  -> ToString(i)
                    [] c = "Author ID"        -> "https://openalex.org/A" \o ToString(i)
                    [] c = "Author Name"      -> "Author " \o ToString(i)
                    [] c = "ORCID"            -> ""
                    [] c = "Is Corresponding" -> "False"
                    [] c = "Raw Author Name"  -> names[i]
                    [] c = "Affiliations"     -> "Moonshot AI"]])

\* df[df[raw_col].apply(row_matches)], line 85.  On a frame without rows
\* apply returns an empty Series of dtype object, which is not a boolean
\* mask: df[...] takes it for a list of column labels and selects none.
filtered_df(frame) ==
    IF frame.rows = <<>> THEN Table(<<>>, <<>>)
    ELSE Table(frame.columns, SelectSeq(frame.rows, LAMBDA r : row_matches(r[raw_col])))

FilterIdle ==
    /\ paper_file = <<>>
    /\ original_file = <<>>
    /\ once_file = <<>>
    /\ passes = 0
    /\ f_pc = "idle"

\* The file at file_path (line 6) before the script is first run.
FilterInit ==
    /\ paper_file \in {<<PaperFile(names)>> :
                          names \in UNION {[1 .. n -> RawNames] : n \in 1 .. 2}}
    /\ original_file = paper_file
    /\ once_file = <<>>
    /\ passes = 0
    /\ f_pc = "ready"

\* One run of the script, lines 54-89.  read_csv raises EmptyDataError on a
\* file without a header (line 54); a file without the column raises
\* KeyError (lines 82-83).
FilterNames ==
    /\ f_pc = "ready"
    /\ passes < MaxPasses
    /\ IF paper_file[1].columns = <<>> \/ raw_col \notin Range(paper_file[1].columns)
       THEN /\ f_pc' = "crashed"
            /\ UNCHANGED <<paper_file, once_file, passes>>
       ELSE /\ paper_file' = <<to_csv(filtered_df(read_csv(paper_file[1])))>>
            /\ once_file' = IF passes = 0 THEN paper_file' ELSE once_file
            /\ passes' = passes + 1
            /\ f_pc' = "ready"
    /\ UNCHANGED <<original_file, notFilterVars>>

FilterNext == FilterNames

InitLineage ==
    LineageInit /\ CombineIdle /\ ScrapeIdle /\ OrgIdle /\ CsvIdle /\ SummaryIdle /\ FilterIdle

SpecLineage == InitLineage /\ [][LineageNext]_vars

InitCombine ==
    CombineInit /\ LineageIdle /\ ScrapeIdle /\ OrgIdle /\ CsvIdle /\ SummaryIdle /\ FilterIdle

SpecCombine == InitCombine /\ [][CombineNext]_vars

InitScrape ==
    ScrapeInit /\ LineageIdle /\ CombineIdle /\ OrgIdle /\ CsvIdle /\ SummaryIdle /\ FilterIdle

SpecScrape == InitScrape /\ [][ScrapeNext]_vars

InitOrgs ==
    OrgInit /\ LineageIdle /\ CombineIdle /\ ScrapeIdle /\ CsvIdle /\ SummaryIdle /\ FilterIdle

SpecOrgs == InitOrgs /\ [][OrgNext]_vars

InitCsv ==
    CsvInit /\ LineageIdle /\ CombineIdle /\ ScrapeIdle /\ OrgIdle /\ SummaryIdle /\ FilterIdle

SpecCsv == InitCsv /\ [][CsvNext]_vars

InitSummary ==
    SummaryInit /\ LineageIdle /\ CombineIdle /\ ScrapeIdle /\ OrgIdle /\ CsvIdle
        /\ FilterIdle

SpecSummary == InitSummary /\ [][SummaryNext]_vars

InitFilter ==
    FilterInit /\ LineageIdle /\ CombineIdle /\ ScrapeIdle /\ OrgIdle /\ CsvIdle
        /\ SummaryIdle

SpecFilter == InitFilter /\ [][FilterNext]_vars

(***************************************************************************)
(* Properties of the lineage stage                                         *)
(***************************************************************************)
\* The parent -> child edges the table lists: C is in P's children_ids, or
\* P is in C's parent_ids.
ListedEdges(table) ==
    UNION {{<<table[i].id, c>> : c \in Range(table[i].children_ids)}
              \cup {<<p, table[i].id>> : p \in Range(table[i].parent_ids)} :
           i \in DOMAIN table}

Compose(R, S) == {<<p[1][1], p[2][2]>> : p \in {q \in R \X S : q[1][2] = q[2][1]}}

\* The pairs joined by a path of one or more edges.
RECURSIVE TransitiveClosure(_)
TransitiveClosure(R) ==
    LET R2 == R \cup Compose(R, R)
    IN IF R2 = R THEN R ELSE TransitiveClosure(R2)

ReachableFrom(table, x) ==
    LET closure == TransitiveClosure(ListedEdges(table))
    IN {p[2] : p \in {q \in closure : q[1] = x}} \ {x}

ReachableTo(table, x) ==
    LET closure == TransitiveClosure(ListedEdges(table))
    IN {p[1] : p \in {q \in closure : q[2] = x}} \ {x}

OnCycle(table, x) == <<x, x>> \in TransitiveClosure(ListedEdges(table))

\* The sum of one count column over the table rows whose id is in ids.
RECURSIVE SumOverIds(_, _, _)
SumOverIds(table, ids, col) ==
    IF ids = {} THEN 0
    ELSE LET y == CHOOSE z \in ids : TRUE
             rows == {i \in DOMAIN table : table[i].id = y}
         IN (IF rows = {} THEN 0 ELSE table[CHOOSE i \in rows : TRUE][col])
            + SumOverIds(table, ids \ {y}, col)

TableRow(table, x) == table[CHOOSE i \in DOMAIN table : table[i].id = x]

LineageRows == Range(lineage_data) \cup Range(lineage_df)

TotalsOverDescendants(row) ==
    LET x    == row.id
        own  == TableRow(df, x)
        desc == ReachableFrom(df, x)
    IN /\ row.total_author_count = own.author_count + SumOverIds(df, desc, "author_count")
       /\ row.total_works_count = own.works_count + SumOverIds(df, desc, "works_count")
       /\ row.total_citations = own.cited_by_count + SumOverIds(df, desc, "cited_by_count")

\* C1: for every institution row X, each total_* equals X's own count plus
\* the counts of the table rows reachable from X over one or more
\* parent -> child edges, each such row counted once and X itself never,
\* also when the edges form a cycle.
C1_TotalsSumDescendantsOnce == \A row \in LineageRows : TotalsOverDescendants(row)

\* C1 witness: the output is written and holds an institution that lies on
\* a cycle and whose total includes the count of another row.
C1_Witness ==
    /\ l_pc = "done"
    /\ \E row \in Range(lineage_df) :
          /\ OnCycle(df, row.id)
          /\ row.total_author_count > row.direct_author_count

\* C2: the graph's edges are exactly the listed parent -> child pairs;
\* num_children / num_ancestors count the distinct ids reachable forward /
\* backward over one or more edges, X excluded; has_parent iff
\* num_ancestors > 0 and is_parent iff num_children > 0.
C2_EdgesAndLineageCounts ==
    /\ l_pc # "build" => graph.edges = ListedEdges(df)
    /\ \A row \in LineageRows :
          /\ row.num_children = Cardinality(ReachableFrom(df, row.id))
          /\ row.num_ancestors = Cardinality(ReachableTo(df, row.id))
          /\ row.has_parent <=> row.num_ancestors > 0
          /\ row.is_parent <=> row.num_children > 0

\* C2 witness: the output holds an institution with two descendants, one of
\* them not a direct child, and another institution with two ancestors.
C2_Witness ==
    /\ l_pc = "done"
    /\ \E row \in Range(lineage_df) :
          /\ row.num_children >= 2
          /\ \E y \in ReachableFrom(df, row.id) : <<row.id, y>> \notin ListedEdges(df)
    /\ \E row \in Range(lineage_df) : row.num_ancestors >= 2 /\ row.has_parent


(***************************************************************************)
(* Properties of the roster combination                                    *)
(***************************************************************************)
\* The (author_name, author_id) pairs found in the per-paper CSVs and, for
\* one pair, the paper numbers it occurs in.
PairsFound ==
    {file.rows[i] : <<file, i>> \in
        {q \in Range(csv_files) \X (1 .. MaxAuthorsPerPaper) : q[2] \in DOMAIN q[1].rows}}

PapersOf(pair) ==
    {file.paper_number : file \in {g \in Range(csv_files) : pair \in Range(g.rows)}}

\* The text "n1, n2, ..." of the numbers of S from `from` upwards, ascending.
RECURSIVE AscendingText(_, _)
AscendingText(S, from) ==
    IF S = {} THEN ""
    ELSE IF from \in S
         THEN ToString(from) \o (IF S = {from} THEN "" ELSE ", ")
                  \o AscendingText(S \ {from}, from + 1)
         ELSE AscendingText(S, from + 1)

RosterRowsOf(pair) ==
    {i \in DOMAIN final_df :
        final_df[i]["Author"] = pair.author_name /\ final_df[i]["OA_Profile"] = pair.author_id}

C4_OaIdUnique ==
    c_pc = "done" =>
        \A i, j \in DOMAIN final_df :
            final_df[i]["OA_ID"] = final_df[j]["OA_ID"] => i = j


(***************************************************************************)
(* Properties of the scrapers                                              *)
(***************************************************************************)
IsRequest(e) == e.kind = "request"

RequestEvents == SelectSeq(events, IsRequest)

\* The rows whose request was answered with status 200 / with another
\* status / not at all (the call raised).
RowsAnswered200 ==
    {e.row : e \in {x \in Range(RequestEvents) : ~x.raised /\ x.status_code = HTTP_OK}}

RowsAnsweredNon200 ==
    {e.row : e \in {x \in Range(RequestEvents) : ~x.raised /\ x.status_code # HTTP_OK}}

RowsRaised == {e.row : e \in {x \in Range(RequestEvents) : x.raised}}

RowsRequested == {e.row : e \in Range(RequestEvents)}

KeyColumns == {"Author", "OA_Profile", "OA_ID"}

\* `rows` are the input rows `picked` (ascending), with the key columns kept.
CarriesRows(rows, picked) ==
    /\ Len(rows) = Len(picked)
    /\ \A k \in DOMAIN rows :
          \A c \in KeyColumns : rows[k][c] = input_df[picked[k]][c]

\* C5: in the profile enrichment, given at least one successful fetch, the
\* output table holds exactly the input rows whose fetch succeeded, in input
\* order, with Author, OA_Profile and OA_ID unchanged; a row whose fetch
\* failed is left out, every later row is still processed, and the output
\* has at most as many rows as the input.
C5_OutputIsSucceededRows ==
    script = "profile" =>
        /\ CarriesRows(new_data, SortedSeq(RowsAnswered200))
        /\ (index > Len(input_df) /\ RowsAnswered200 # {}) => s_pc # "crashed"
        /\ s_pc = "done" =>
              /\ CarriesRows(out_file.rows, SortedSeq(RowsAnswered200))
              /\ RowsRequested = 1 .. Len(input_df)
              /\ Len(out_file.rows) <= Len(input_df)

\* C5 witness: the enriched table is written after a run in which the first
\* row's fetch failed and a later row's fetch succeeded.
C5_Witness ==
    /\ script = "profile"
    /\ s_pc = "done"
    /\ 1 \in RowsRaised \cup RowsAnsweredNon200
    /\ Len(out_file.rows) >= 1
    /\ Len(out_file.rows) < Len(input_df)

\* C6: in the author-works stage, an author one of whose page requests
\* returned a non-200 status has no row in authors_and_works.csv.
C6_FailedAuthorHasNoRows ==
    script = "works" =>
        \A i \in RowsAnsweredNon200 :
            \A k \in DOMAIN out_file.rows :
                out_file.rows[k]["Author ID"] # authors_data[i]["Author ID"]

C8_SleepBetweenRequests ==
    script \in {"profile", "works"} =>
        \A i \in 1 .. (Len(events) - 1) :
            ~(IsRequest(events[i]) /\ IsRequest(events[i + 1]))

\* C9: in the profile and institution enrichment exactly one HTTP request is
\* issued per input row, in input-row order, whether it succeeds or fails.
C9_OneRequestPerRowInOrder ==
    script \in {"profile", "institutions"} =>
        /\ Len(RequestEvents) = index - 1
        /\ \A k \in DOMAIN RequestEvents : RequestEvents[k].row = k
        /\ s_pc \in {"summary", "done", "crashed"} => Len(RequestEvents) = Len(input_df)

\* C9 witness: the institution enrichment has gone through a table of
\* several rows in which the request of the first row failed.
C9_Witness ==
    /\ script = "institutions"
    /\ s_pc = "done"
    /\ Len(input_df) >= 2
    /\ 1 \in RowsRaised \cup RowsAnsweredNon200

\* C10: in the author-works stage and in the ORCID scraper an HTTP call that
\* raises is caught: the run goes on and does not end in the exception.
C10_RaisedRequestIsCaught ==
    (script \in {"works", "orcid"} /\ RowsRaised # {}) => s_pc # "crashed"

\* C11: in the profile enrichment and in the institution enrichment, a run
\* in which no fetch succeeded (every fetch failed, or the input table has no
\* rows) still completes without raising.
C11_AllFailedStillCompletes ==
    (script \in {"profile", "institutions"} /\ index > Len(input_df) /\ RowsAnswered200 = {})
        => s_pc # "crashed"

(***************************************************************************)
(* Properties of the pagination of fetch_all_works                         *)
(***************************************************************************)
\* The requests issued for author `row`, in the order they were issued.
RequestsOfRow(row) ==
    SelectSeq(events, LAMBDA e : e.kind = "request" /\ e.row = row)

AnsweredOk(e) == ~e.raised /\ e.status_code = HTTP_OK

\* The next_cursor a 200 answer carried; None when it is null or absent.
ReturnedCursor(e) ==
    IF "next_cursor" \in DOMAIN e.body.meta THEN e.body.meta.next_cursor ELSE None

RECURSIVE ResultsInPageOrder(_)
ResultsInPageOrder(requests) ==
    IF requests = <<>> THEN <<>>
    ELSE Head(requests).body.results \o ResultsInPageOrder(Tail(requests))

\* C13: when every page request of an author answered 200, what
\* fetch_all_works returns is the concatenation, in page order, of the results
\* of the page asked with cursor '*' and of each page asked with the
\* next_cursor the previous page returned, up to and including the first page
\* with a null or absent next_cursor; no page is asked twice, none skipped.
C13_AllPagesConcatenated ==
    (script = "works" /\ s_pc = "write") =>
        LET requests == RequestsOfRow(index)
        IN (\A k \in DOMAIN requests : AnsweredOk(requests[k])) =>
              /\ requests # <<>>
              /\ requests[1].cursor = "*"
              /\ \A k \in 2 .. Len(requests) :
                    requests[k].cursor = ReturnedCursor(requests[k - 1])
              /\ \A k \in DOMAIN requests :
                    (ReturnedCursor(requests[k]) = None) <=> (k = Len(requests))
              /\ \A j, k \in DOMAIN requests :
                    requests[j].cursor = requests[k].cursor => j = k
              /\ works = ResultsInPageOrder(requests)

\* C13 witness: fetch_all_works returns after MaxPages pages, all answered
\* 200, each but the last naming the next page.
C13_Witness ==
    /\ script = "works"
    /\ s_pc = "write"
    /\ Len(RequestsOfRow(index)) = MaxPages
    /\ \A k \in DOMAIN RequestsOfRow(index) : AnsweredOk(RequestsOfRow(index)[k])
    /\ Len(works) = MaxPages

\* An answer that ends the pagination: a status other than 200, or a 200
\* answer with a null or absent next_cursor.
EndsPagination(e) ==
    ~e.raised /\ (e.status_code # HTTP_OK \/ ReturnedCursor(e) = None)

NoRequestAfterEnd ==
    script = "works" =>
        \A i, j \in DOMAIN events :
            (i < j /\ IsRequest(events[i]) /\ IsRequest(events[j])
                   /\ events[i].row = events[j].row)
                => ~EndsPagination(events[i])

\* The author-works stage with the pagination loop running to its exit.
FairSpecScrape == SpecScrape /\ WF_vars(FetchWorksPage)

\* C14: the pagination loop of fetch_all_works eventually exits, and after a
\* null or absent next_cursor or a non-200 status no further request is
\* issued for that author.
C14_PaginationTerminates ==
    /\ [](NoRequestAfterEnd)
    /\ ((script = "works" /\ s_pc = "fetching") ~> (s_pc # "fetching"))

\* C14 witness: the loop has exited on a non-200 answer to the second page of
\* an author.
C14_Witness ==
    /\ script = "works"
    /\ s_pc = "write"
    /\ Len(RequestsOfRow(index)) >= 2
    /\ LET last == RequestsOfRow(index)[Len(RequestsOfRow(index))]
       IN ~last.raised /\ last.status_code # HTTP_OK

(***************************************************************************)
(* Properties of the affiliation columns of the profile enrichment         *)
(***************************************************************************)
\* The enriched rows built for input row `row`.
EnrichedRowsOf(row) ==
    {i \in DOMAIN new_data : new_data[i]["OA_ID"] = input_df[row]["OA_ID"]}

\* C19: for every (institution, year) pair in the affiliations OpenAlex
\* reported for an author, the enriched row's affiliation-<year> and
\* ID-<year> hold that institution's name and id, also when two institutions
\* are reported for the same year.
C19_EveryAffiliationRepresented ==
    script = "profile" =>
        \A k \in DOMAIN RequestEvents :
            AnsweredOk(RequestEvents[k]) =>
                LET affiliations == RequestEvents[k].body[1]["affiliations"]
                IN /\ EnrichedRowsOf(RequestEvents[k].row) # {}
                   /\ \A i \in EnrichedRowsOf(RequestEvents[k].row) :
                         \A a \in DOMAIN affiliations :
                             \A y \in Range(affiliations[a].years) :
                                 /\ new_data[i][AffiliationColumn(y)]
                                        = affiliations[a].institution.display_name
                                 /\ new_data[i][IdColumn(y)] = affiliations[a].institution.id

(***************************************************************************)
(* Properties of the per-organization stages                               *)
(***************************************************************************)
FileOf(folder, filename) == files[folder \o "/CSVs/" \o filename]

HasFile(folder, filename) == FileOf(folder, filename) # <<>>

\* The files of one organization's folder.
FolderFiles(folder) ==
    [f \in {authors_filename, institutions_filename, output_filename} |-> FileOf(folder, f)]

\* The organization a multi-organization stage is at lacks an input file.
AtMissingInput ==
    /\ org \in DOMAIN main_dirs
    /\ \/ stage = "sorting"
          /\ (~HasFile(main_dirs[org], authors_filename)
                 \/ ~HasFile(main_dirs[org], institutions_filename))
       \/ stage = "trajectory" /\ ~HasFile(main_dirs[org], authors_filename)
       \/ stage = "institutions" /\ ~HasFile(companies[org], institutions_filename)

\* A step over an organization whose input is missing changes nothing but
\* the position of the loop, and a step of step9 or step10 leaves the files
\* of the other organizations alone.
SkipsMissingOnly ==
    /\ AtMissingInput =>
          /\ stage' = stage
          /\ org' = org + 1
          /\ files' = files
          /\ dfs' = dfs
          /\ combined_df' = combined_df
    /\ (stage \in {"sorting", "trajectory"} /\ org \in DOMAIN main_dirs) =>
          \A k \in DOMAIN main_dirs :
              k # org => FolderFiles(main_dirs[k])' = FolderFiles(main_dirs[k])

\* The trajectory table of an organization, from its own authors file alone.
TrajectoryOf(folder) ==
    LET selected == with_affiliation_data(read_csv(FileOf(folder, authors_filename)[1]))
    IN to_csv(trajectory_df(selected, year_country_cols(selected.columns)))

\* The combined institutions of the companies that have a file, as if the
\* others were not in the list.
PresentCompanies == SelectSeq(companies, LAMBDA c : HasFile(c, institutions_filename))

CombinedOfPresent ==
    combine_datasets(
        [k \in DOMAIN PresentCompanies |->
            tag_dataset(read_csv(FileOf(PresentCompanies[k], institutions_filename)[1]),
                        PresentCompanies[k])])

\* Every organization that has its input has been processed, and its result
\* is what its own files give.
OthersProcessed ==
    /\ (stage = "trajectory" /\ org = 1) =>
          \A k \in DOMAIN main_dirs :
              (HasFile(main_dirs[k], authors_filename)
                   /\ HasFile(main_dirs[k], institutions_filename))
                  => "affiliation_data" \in Range(FileOf(main_dirs[k], authors_filename)[1].columns)
    /\ (stage = "visualizations" /\ org = 1) =>
          \A k \in DOMAIN main_dirs :
              (HasFile(main_dirs[k], authors_filename)
                   /\ year_country_cols(FileOf(main_dirs[k], authors_filename)[1].columns) # <<>>)
                  => FileOf(main_dirs[k], output_filename) = <<TrajectoryOf(main_dirs[k])>>
    /\ stage = "combined" => combined_df = <<CombinedOfPresent>>

\* C12: in step9, step10 and step12 an organization whose input file is
\* missing is skipped without raising, every other organization is still
\* processed, and the result for the others is the same as if the missing
\* organization had not been in the list.
C12_MissingOrganizationSkipped ==
    /\ [][SkipsMissingOnly]_vars
    /\ [](OthersProcessed)

\* C12 witness: step10 has finished; the first organization had no authors
\* file and a later one has its trajectory table.
C12_Witness ==
    /\ stage = "visualizations"
    /\ ~HasFile(main_dirs[1], authors_filename)
    /\ \E k \in DOMAIN main_dirs : HasFile(main_dirs[k], output_filename)

\* The authors of an organization's authors file who have a yearly
\* affiliation in the columns the profile enrichment writes
\* (affiliation-<year>, ID-<year>).
AuthorsWithYearlyAffiliation(folder) ==
    LET table == FileOf(folder, authors_filename)[1]
    IN {table.rows[i]["Author"] :
           i \in {j \in DOMAIN table.rows :
                     \E y \in Years :
                         /\ AffiliationColumn(y) \in Range(table.columns)
                         /\ table.rows[j][AffiliationColumn(y)] # ""}}

TrajectoryAuthors(folder) ==
    IF ~HasFile(folder, output_filename) THEN {}
    ELSE LET table == FileOf(folder, output_filename)[1]
         IN IF "Author" \notin Range(table.columns) THEN {}
            ELSE {table.rows[i]["Author"] : i \in DOMAIN table.rows}

\* C15: with the stages run in pipeline order, an author who has a yearly
\* affiliation in the profile enrichment's enriched_authors_metadata.csv has
\* a row in author_career_trajectory.csv once step9 and step10 have run.
C15_AffiliatedAuthorHasTrajectory ==
    (stage = "visualizations" /\ org = 1) =>
        \A k \in DOMAIN main_dirs :
            (HasFile(main_dirs[k], authors_filename)
                 /\ HasFile(main_dirs[k], institutions_filename))
                => AuthorsWithYearlyAffiliation(main_dirs[k])
                       \subseteq TrajectoryAuthors(main_dirs[k])

\* The rows of the combined table of step11 that belong to an organization.
CombinedRowsOf(folder) ==
    {i \in DOMAIN combined_df[1].rows : combined_df[1].rows[i]["Org"] = folder}

\* C16: combined_df has, for each organization, exactly one row per row of
\* the organization's author_career_trajectory.csv.
C16_OneRowPerTrajectoryRow ==
    stage = "done" =>
        \A k \in DOMAIN ORG_DIRS :
            (HasFile(ORG_DIRS[k], output_filename) /\ HasFile(ORG_DIRS[k], authors_filename))
                => Cardinality(CombinedRowsOf(ORG_DIRS[k]))
                       = Len(FileOf(ORG_DIRS[k], output_filename)[1].rows)

\* The countries of a row of the authors file step9 wrote, by ascending
\* year, for the years that have one.
YearsWithCountry(row) ==
    {y \in Years : country_col(y) \in DOMAIN row /\ row[country_col(y)] # ""}

CountriesByYear(row) ==
    LET years == SortedSeq(YearsWithCountry(row))
    IN [k \in DOMAIN years |-> row[country_col(years[k])]]

\* A sequence without the entries equal to their predecessor.
Collapsed(sequence) ==
    LET kept == SortedSeq({k \in DOMAIN sequence : k = 1 \/ sequence[k] # sequence[k - 1]})
    IN [i \in DOMAIN kept |-> sequence[kept[i]]]

\* The rows of an organization's authors file that step10 processes.
AffiliatedRows(folder) ==
    SelectSeq(FileOf(folder, authors_filename)[1].rows,
              LAMBDA r : r["affiliation_data"] = "True")

\* C17: the 'Geographic Trajectory' of every author row lists the author's
\* non-missing yearly countries in ascending year order with consecutive
\* duplicates collapsed: no two adjacent entries are equal, the first is the
\* country of the earliest year that has one, the last that of the latest.
C17_TrajectoryCollapsesByYear ==
    (stage = "visualizations" /\ org = 1) =>
        \A k \in DOMAIN main_dirs :
            HasFile(main_dirs[k], output_filename) =>
                LET written == FileOf(main_dirs[k], output_filename)[1].rows
                    rows    == AffiliatedRows(main_dirs[k])
                IN /\ Len(written) = Len(rows)
                   /\ \A i \in DOMAIN rows :
                         LET countries == CountriesByYear(rows[i])
                             expected  == Collapsed(countries)
                         IN /\ written[i]["Geographic Trajectory"] = Join(" ---> ", expected)
                            /\ \A j \in 1 .. (Len(expected) - 1) : expected[j] # expected[j + 1]
                            /\ countries # <<>> =>
                                  /\ expected[1] = countries[1]
                                  /\ expected[Len(expected)] = countries[Len(countries)]

\* C17 witness: step10 has written the trajectory of an author who left the
\* United States and came back.
C17_Witness ==
    /\ stage = "visualizations"
    /\ \E k \in DOMAIN main_dirs :
          /\ HasFile(main_dirs[k], output_filename)
          /\ \E i \in DOMAIN FileOf(main_dirs[k], output_filename)[1].rows :
                FileOf(main_dirs[k], output_filename)[1].rows[i]["Geographic Trajectory"]
                    = "United States ---> China ---> United States"

\* The valid yearly countries of a row of the authors file step9 wrote.
ValidCountries(row) == {row[country_col(y)] : y \in YearsWithCountry(row)}

\* C18: for every author row step9 writes, with C the valid yearly
\* countries: all_usa iff C is non-empty and all 'United States', all_china
\* likewise for 'China', some_usa / some_china iff C contains the country;
\* so all_usa implies some_usa, all_china implies some_china, all_usa and
\* all_china exclude each other, and either gives unique_country_count = 1.
C18_CountryFlagsAgree ==
    (stage = "trajectory" /\ org = 1) =>
        \A k \in DOMAIN main_dirs :
            (HasFile(main_dirs[k], authors_filename)
                 /\ HasFile(main_dirs[k], institutions_filename))
                => \A i \in DOMAIN FileOf(main_dirs[k], authors_filename)[1].rows :
                       LET row == FileOf(main_dirs[k], authors_filename)[1].rows[i]
                           C   == ValidCountries(row)
                       IN /\ (row["all_usa"] = "True") <=> (C = {"United States"})
                          /\ (row["all_china"] = "True") <=> (C = {"China"})
                          /\ (row["some_usa"] = "True") <=> ("United States" \in C)
                          /\ (row["some_china"] = "True") <=> ("China" \in C)
                          /\ row["all_usa"] \in {"True", "False"}
                          /\ row["all_china"] \in {"True", "False"}
                          /\ row["some_usa"] \in {"True", "False"}
                          /\ row["some_china"] \in {"True", "False"}
                          /\ row["all_usa"] = "True" => row["some_usa"] = "True"
                          /\ row["all_china"] = "True" => row["some_china"] = "True"
                          /\ ~(row["all_usa"] = "True" /\ row["all_china"] = "True")
                          /\ (row["all_usa"] = "True" \/ row["all_china"] = "True")
                                 => row["unique_country_count"] = "1"
                          /\ row["unique_country_count"] = ToString(Cardinality(C))

\* C18 witness: step9 has written a row with years in the United States and
\* in China, and a row whose years are all in the United States.
C18_Witness ==
    /\ stage = "trajectory"
    /\ \E k \in DOMAIN main_dirs :
          /\ HasFile(main_dirs[k], authors_filename)
          /\ "all_usa" \in Range(FileOf(main_dirs[k], authors_filename)[1].columns)
          /\ \E i, j \in DOMAIN FileOf(main_dirs[k], authors_filename)[1].rows :
                LET rows == FileOf(main_dirs[k], authors_filename)[1].rows
                IN /\ rows[i]["some_usa"] = "True"
                   /\ rows[i]["some_china"] = "True"
                   /\ rows[i]["all_usa"] = "False"
                   /\ rows[j]["all_usa"] = "True"


\* C20: every cell of the table step8 writes with to_csv holds the same
\* string value after step9 reads it back with read_csv, the cells holding
\* the empty string or the text 'NULL' included.
C20_CsvRoundTrip ==
    r_pc = "read" =>
        /\ author_df9[1].columns = result_df8[1].columns
        /\ Len(author_df9[1].rows) = Len(result_df8[1].rows)
        /\ \A i \in DOMAIN result_df8[1].rows :
              \A c \in Range(result_df8[1].columns) :
                  author_df9[1].rows[i][c] = result_df8[1].rows[i][c]


\* The country of the latest year for which a row of the combined table has
\* one, None without any.
LastCountryOf(row) ==
    LET years == {y \in Years : ToString(y) \in DOMAIN row /\ row[ToString(y)] # NaN}
    IN IF years = {} THEN None
       ELSE row[ToString(CHOOSE y \in years : \A z \in years : z <= y)]

EndingInUnitedStates(frame) ==
    {i \in DOMAIN frame.rows : LastCountryOf(frame.rows[i]) = "United States"}

\* C21: calculate_retention counts an author as retained exactly when the
\* last country of the author's trajectory is 'United States', whatever
\* narrative string step10 produced for the author.
C21_RetainedIffLastCountryUnitedStates ==
    stage = "reported" =>
        \A k \in DOMAIN mega_retention :
            LET part == rows_of_org(combined_df[1], mega_retention[k].Org)
            IN /\ mega_retention[k].retention.count = Len(part.rows)
               /\ mega_retention[k].retention.sum = Cardinality(EndingInUnitedStates(part))

\* The metadata rows of an organization that have the author of a row of
\* the combined table.
MetadataRowsOf(row) ==
    SelectSeq(FileOf(row["Org"], authors_filename)[1].rows,
              LAMBDA r : r["Author"] = row["Author"])

YearsAbroad(metadata_row) ==
    Cardinality({y \in Years :
                    /\ country_col(y) \in DOMAIN metadata_row
                    /\ metadata_row[country_col(y)] \notin {"", "United States"}})

\* C22: the 'Foreign Experience Years' of a row of the combined table is the
\* number of affiliation_country_* cells of that author's metadata row that
\* hold a country other than 'United States'.
C22_ForeignYearsOfSameAuthor ==
    stage = "done" =>
        \A i \in DOMAIN combined_df[1].rows :
            LET row == combined_df[1].rows[i]
            IN \E k \in DOMAIN MetadataRowsOf(row) :
                   row["Foreign Experience Years"] = ToString(YearsAbroad(MetadataRowsOf(row)[k]))

\* C23: every author row step10 writes is in exactly one narrative case: no
\* yearly country, all three trajectory fields empty; one distinct country c,
\* 'Affiliated with one country' and 'Started and Ended in c'; two or more,
\* 'Multinational Travel ---> last' and 'Started and Ended in first (with
\* travel in between)' when first = last, else 'Started in first, Ended up
\* in last'; a trajectory of several distinct countries has more than one
\* entry, so the plain 'Started and Ended in first' of that case is not used.
C23_NarrativeCases ==
    (stage = "visualizations" /\ org = 1) =>
        \A k \in DOMAIN main_dirs :
            HasFile(main_dirs[k], output_filename) =>
                LET written == FileOf(main_dirs[k], output_filename)[1].rows
                    rows    == AffiliatedRows(main_dirs[k])
                IN /\ Len(written) = Len(rows)
                   /\ \A i \in DOMAIN rows :
                         LET countries == CountriesByYear(rows[i])
                             first     == countries[1]
                             last      == countries[Len(countries)]
                             full      == written[i]["Geographic Trajectory"]
                             simple    == written[i]["Geographic Trajectory (simplified)"]
                             simpler   ==
                                 written[i]["Geographic Trajectory (even more simplified)"]
                         IN CASE Cardinality(Range(countries)) = 0 ->
                                     full = "" /\ simple = "" /\ simpler = ""
                              [] Cardinality(Range(countries)) = 1 ->
                                     /\ simple = "Affiliated with one country"
                                     /\ simpler = "Started and Ended in " \o first
                              [] OTHER ->
                                     /\ simple = "Multinational Travel ---> " \o last
                                     /\ simpler =
                                            IF first = last
                                            THEN "Started and Ended in " \o first
                                                     \o " (with travel in between)"
                                            ELSE "Started in " \o first
                                                     \o ", Ended up in " \o last
                                     /\ Len(Collapsed(countries)) > 1

\* C23 witness: step10 has written, for one organization, an author of one
\* country, and for another author a start and an end in the same country
\* with travel in between.
C23_Witness ==
    /\ stage = "visualizations"
    /\ \E k \in DOMAIN main_dirs :
          /\ HasFile(main_dirs[k], output_filename)
          /\ \E i, j \in DOMAIN FileOf(main_dirs[k], output_filename)[1].rows :
                LET rows == FileOf(main_dirs[k], output_filename)[1].rows
                IN /\ rows[i]["Geographic Trajectory (simplified)"]
                          = "Affiliated with one country"
                   /\ rows[j]["Geographic Trajectory (even more simplified)"]
                          = "Started and Ended in China (with travel in between)"

\* The latest year for which a row of the authors file names an institution.
LatestNamedYear(row) ==
    LET years == {y \in Years : name_col(y) \in DOMAIN row /\ row[name_col(y)] # ""}
    IN CHOOSE y \in years : \A z \in years : z <= y

\* C24: in every author row step9 writes, 'Most Recent Affiliation Country'
\* is the country of the institution named in 'Most Recent Affiliation':
\* both come from the latest year that names an institution, the country
\* being empty when that institution has none.
C24_MostRecentFromSameYear ==
    (stage = "trajectory" /\ org = 1) =>
        \A k \in DOMAIN main_dirs :
            (HasFile(main_dirs[k], authors_filename)
                 /\ HasFile(main_dirs[k], institutions_filename))
                => \A i \in DOMAIN FileOf(main_dirs[k], authors_filename)[1].rows :
                       LET row == FileOf(main_dirs[k], authors_filename)[1].rows[i]
                       IN row["Most Recent Affiliation"] # "" =>
                              /\ row["Most Recent Affiliation"]
                                     = row[name_col(LatestNamedYear(row))]
                              /\ row["Most Recent Affiliation Country"]
                                     = row[country_col(LatestNamedYear(row))]


\* The country step9 takes for an institution id from an organization's
\* enriched_institutions.csv: the text of the country cell of the row with
\* that id, no country ("") for a blank or 'NULL' cell, for a missing id and
\* for an id the table does not list.
CountryInTable(folder, id) ==
    LET rows    == FileOf(folder, institutions_filename)[1].rows
        listed  == {i \in DOMAIN rows : rows[i]["id"] = id}
        country == rows[CHOOSE i \in listed : TRUE]["country"]
    IN IF id = "" \/ listed = {} THEN ""
       ELSE IF country \in {"", "NULL"} THEN "" ELSE country

AnalyticsDirectlyAfterI10(columns) ==
    /\ \A c \in Range(analytics_columns) :
          Cardinality({k \in DOMAIN columns : columns[k] = c}) = 1
    /\ \E at \in DOMAIN columns :
          /\ columns[at] = "i10_index"
          /\ at + Len(analytics_columns) <= Len(columns)
          /\ \A j \in DOMAIN analytics_columns : columns[at + j] = analytics_columns[j]

\* C28: a second run of step9 on the files the first run wrote leaves each
\* authors file as the first run left it, with every analytics column once,
\* directly after i10_index, and every affiliation_country_<year> the
\* country of the institution whose id is in affiliation_id_<year>.
C28_SortingIdempotent ==
    (stage = "sorting" /\ org > Len(main_dirs) /\ sorted_files # <<>>) =>
        \A k \in DOMAIN main_dirs :
            LET path == path_join(main_dirs[k], authors_filename)
            IN /\ files[path] = sorted_files[1][path]
               /\ (HasFile(main_dirs[k], authors_filename)
                       /\ HasFile(main_dirs[k], institutions_filename)) =>
                      LET table == files[path][1]
                      IN /\ AnalyticsDirectlyAfterI10(table.columns)
                         /\ \A i \in DOMAIN table.rows :
                               \A y \in Years :
                                   (id_col(y) \in DOMAIN table.rows[i]
                                        /\ country_col(y) \in DOMAIN table.rows[i]) =>
                                       table.rows[i][country_col(y)]
                                           = CountryInTable(main_dirs[k],
                                                            table.rows[i][id_col(y)])

\* C28 witness: the second run has gone through the folders, one of which
\* has an author with a year in China and one with an institution its
\* institution table does not list.
C28_Witness ==
    /\ stage = "sorting"
    /\ org > Len(main_dirs)
    /\ sorted_files # <<>>
    /\ \E k \in DOMAIN main_dirs, y, z \in Years :
          /\ HasFile(main_dirs[k], authors_filename)
          /\ HasFile(main_dirs[k], institutions_filename)
          /\ \E i \in DOMAIN files[path_join(main_dirs[k], authors_filename)][1].rows :
                LET row == files[path_join(main_dirs[k], authors_filename)][1].rows[i]
                IN /\ country_col(y) \in DOMAIN row
                   /\ row[country_col(y)] = "China"
                   /\ row[id_col(z)] # ""
                   /\ CountryInTable(main_dirs[k], row[id_col(z)]) = ""
                   /\ \A r \in DOMAIN FileOf(main_dirs[k], institutions_filename)[1].rows :
                         FileOf(main_dirs[k], institutions_filename)[1].rows[r]["id"]
                             # row[id_col(z)]


\* The rows of the table whose counts get_hierarchy_metrics adds to the
\* totals of institution x.
ContributingRows(x) == {i \in DOMAIN df : df[i].id \in ReachableFrom(df, x)}

\* C25: for every institution X of the lineage output, num_children(X) is
\* the number of institutions whose counts are added to X's totals: every id
\* counted as a descendant has a row contributing its counts.
C25_ChildrenAllContribute ==
    \A row \in LineageRows :
        /\ row.num_children = Cardinality(ContributingRows(row.id))
        /\ \A y \in ReachableFrom(df, row.id) : \E i \in DOMAIN df : df[i].id = y


RECURSIVE TotalOf(_)
TotalOf(rows) ==
    IF rows = <<>> THEN 0
    ELSE (CHOOSE n \in 0 .. MaxCount : ToString(n) = Head(rows)["author_count"])
             + TotalOf(Tail(rows))

\* The sum of author_count over the rows with an id in a company's
\* enriched_institutions.csv, 0 without the file or the id.
AuthorCountIn(company, id) ==
    IF ~HasFile(company, institutions_filename) THEN 0
    ELSE LET rows   == FileOf(company, institutions_filename)[1].rows
             counts == SelectSeq(rows, LAMBDA r : r["id"] = id)
         IN TotalOf(counts)

LoadedIds ==
    UNION {{FileOf(companies[k], institutions_filename)[1].rows[i]["id"] :
               i \in DOMAIN FileOf(companies[k], institutions_filename)[1].rows} :
           k \in {j \in DOMAIN companies : HasFile(companies[j], institutions_filename)}}

\* The author columns of a combined table, by institution id.
AuthorColumnsOf(table) ==
    {<<table.rows[i]["id"], c, table.rows[i][c]>> :
        i \in DOMAIN table.rows, c \in Range(author_columns)}

\* C26: the combined institution dataset has one row per institution id of
\* the loaded company datasets; its openai_authors, anthropic_authors and
\* google_authors are the sums of author_count over the rows with that id in
\* the company's dataset, and are the same for every order of the companies.
C26_CombinedAuthorSums ==
    stage = "combined" =>
        LET rows == combined_df[1].rows
        IN /\ {rows[i]["id"] : i \in DOMAIN rows} = LoadedIds
           /\ Cardinality(DOMAIN rows) = Cardinality(LoadedIds)
           /\ LoadedIds # {} => files[combined_output_path] = <<to_csv(combined_df[1])>>
           /\ \A i \in DOMAIN rows :
                 \A k \in DOMAIN companies :
                     rows[i][author_column(companies[k])]
                         = ToString(AuthorCountIn(companies[k], rows[i]["id"]))
           /\ \A p \in Permutations(DOMAIN dfs) :
                 AuthorColumnsOf(combine_datasets([k \in DOMAIN dfs |-> dfs[p[k]]]))
                     = AuthorColumnsOf(combined_df[1])

\* C26 witness: the three companies are combined, one institution having
\* authors at all three and another at two of them only.
C26_Witness ==
    /\ stage = "combined"
    /\ Len(dfs) = Len(companies)
    /\ \E i, j \in DOMAIN combined_df[1].rows :
          /\ \A c \in Range(author_columns) : combined_df[1].rows[i][c] # "0"
          /\ \E c \in Range(author_columns) : combined_df[1].rows[j][c] = "0"


(***************************************************************************)
(* Properties of the institution summary                                   *)
(***************************************************************************)
\* The author rows of the affiliations spreadsheet that hold an institution
\* id in the ID column of at least one year.
AuthorsHolding(id) ==
    {k \in DOMAIN affiliations_df[1].rows :
        \E y \in Years :
            /\ IdColumn(y) \in Range(affiliations_df[1].columns)
            /\ affiliations_df[1].rows[k][IdColumn(y)] = id}

\* C27: in the institution summary each institution id occurs in exactly
\* one row, author_count is the number of authors with that id in at least
\* one ID-* column (several years count once), every listed institution has
\* 1 <= author_count <= number of authors, and the rows are in
\* non-increasing author_count order.
C27_InstitutionSummaryCounts ==
    u_pc \in {"summary", "done"} =>
        LET rows == summary_df[1].rows
        IN /\ \A i, j \in DOMAIN rows : rows[i]["id"] = rows[j]["id"] => i = j
           /\ \A i \in DOMAIN rows :
                 /\ rows[i]["author_count"] = ToString(Cardinality(AuthorsHolding(rows[i]["id"])))
                 /\ 1 <= Cardinality(AuthorsHolding(rows[i]["id"]))
                 /\ Cardinality(AuthorsHolding(rows[i]["id"])) <= Len(affiliations_df[1].rows)
           /\ \A i, j \in DOMAIN rows :
                 i < j => Cardinality(AuthorsHolding(rows[i]["id"]))
                              >= Cardinality(AuthorsHolding(rows[j]["id"]))

\* Two authors, two institutions: one held by both authors, the other held
\* by one author in two years and listed with a count of one.
C27_Witness ==
    /\ u_pc = "done"
    /\ Len(affiliations_df[1].rows) = 2
    /\ Len(summary_df[1].rows) = 2
    /\ summary_df[1].rows[1]["author_count"] = "2"
    /\ summary_df[1].rows[2]["author_count"] = "1"
    /\ \E k \in DOMAIN affiliations_df[1].rows :
          Cardinality({y \in Years :
              /\ IdColumn(y) \in Range(affiliations_df[1].columns)
              /\ affiliations_df[1].rows[k][IdColumn(y)] = summary_df[1].rows[2]["id"]}) = 2


(***************************************************************************)
(* Properties of the name filter                                           *)
(***************************************************************************)
\* The cells of RawNames that name a target author: alone, after ';' or
\* after '|', in any case, with periods and extra whitespace.
CellsNamingTarget ==
    {"Du, Angang", "Smith, John; Du, Angang", "Smith, John|LAI, Guokun",
     " Zhilin \t Yang.", "Kimi Team"}

\* The rows of the original file the filter is to keep, in their order.
RowsNamingTarget ==
    SelectSeq(original_file[1].rows, LAMBDA r : r[raw_col] \in CellsNamingTarget)

\* The first pass keeps exactly the rows naming a target author, unchanged
\* and in their original order.
FirstPassKeepsMatchingRows ==
    passes >= 1 => once_file[1] = Table(original_file[1].columns, RowsNamingTarget)

\* The file after two passes is the file after one.
SecondPassChangesNothing ==
    (passes >= 2 \/ (passes = 1 /\ f_pc = "crashed")) => paper_file = once_file

\* C29: the name filter keeps exactly the rows whose 'Raw Author Name' cell
\* holds an author (split on ';' or '|', never on ',') equal to a target
\* name after normalisation, unchanged and in order, and applying the
\* filter twice gives the same file as applying it once.
C29_FilterKeepsMatchesAndIsIdempotent ==
    FirstPassKeepsMatchingRows /\ SecondPassChangesNothing

\* Some row of the original file names a target author.
SomeRowNamesTarget == RowsNamingTarget # <<>>

SecondPassChangesNothingAfterMatch ==
    SomeRowNamesTarget => SecondPassChangesNothing

NormalizeExamples ==
    /\ normalize(" Zhilin \t Yang.") = "zhilin yang"
    /\ normalize("LAI, Guokun") = "lai, guokun"
    /\ first_last_to_last_first("Angang Du") = {"du, angang"}
    /\ first_last_to_last_first("Mary Ann Lee") = {"lee, mary", "lee, mary ann"}
    /\ first_last_to_last_first("Kimi") = {"kimi"}
    /\ split_authors("Smith, John; Du, Angang") = <<"Smith, John", "Du, Angang">>
    /\ split_authors(" ; |") = <<>>
    /\ Cardinality(target_raw_forms) = 84

=============================================================================
